---- MODULE Spec2Model ----
(***************************************************************************)
(* A model of the AI Browser tool layer of hello-halo (the SDK MCP server  *)
(* of src/unnamed/part_003) and of the BrowserContext / ViewManager it     *)
(* drives.  The tool handlers are translated from the source; the context  *)
(* and the view manager, whose source is not part of the tree, follow the  *)
(* written specification of their interface.                               *)
(*                                                                         *)
(* The module holds several specifications over one set of variables:     *)
(*   SpecTimeout / FairSpecTimeout  the await skeleton of every handler    *)
(*                                  and the withTimeout race               *)
(*   SpecPages                      the page list and the active view      *)
(*   SpecSnapshot                   snapshot generations and uid lookup    *)
(*   SpecTelemetry                  network / console retention buffers    *)
(*   SpecPerf                       the performance trace session          *)
(*   SpecLookup                     point lookup in the retention buffers  *)
(*   SpecDialog                     the pending dialog                     *)
(*   SpecCalls                      fillFormElement and browser_screenshot *)
(*                                  as functions of their arguments and of *)
(*                                  what the context hands them            *)
(*   SpecLists                      filter and pagination of a list        *)
(*   SpecCommands                   the commands browser_navigate and      *)
(*                                  browser_emulate send                   *)
(* and, outside the browser tools,                                         *)
(*   SpecInterceptors               runInterceptors over a chain           *)
(*   SpecNative                     prepare / restore of native modules    *)
(*   SpecLazy                       the useLazyVisible hook                *)
(*   SpecHighlight                  the useAsyncHighlight hook             *)
(*   SpecSpaces                     createSpace / deleteSpace on disk      *)
(*   SpecRouter                     the POST /v1/messages route            *)
(*   SpecNavigation                 a browser_navigate call and the load   *)
(*                                  it triggers                            *)
(* A specification leaves the variables of the others at their initial     *)
(* values.                                                                 *)
(***************************************************************************)
EXTENDS Integers, Sequences, FiniteSets, TLC

VARIABLES
    \* ---- timeout race (SpecTimeout) ----
    tcall,          \* the tool call in flight: tool, args, plan, position, result
    under,          \* the underlying operation the handler awaits: "none" | "pending"
    timer,          \* the one timer the current await has armed
    orphans,        \* underlying operations abandoned by a timeout, still outstanding
    lateEffect,     \* an abandoned operation took effect after its tool call returned
    \* ---- pages (SpecPages) ----
    views,          \* ViewManager: the live views, as getAllStates() lists them
    activeViewId,   \* BrowserContext: the active view id, NoView when unset
    created,        \* views created so far (the next id)
    pcall,          \* the browser_new_page call in flight
    lastCall,       \* the last tool call that returned or threw, and what it did
    \* ---- snapshots (SpecSnapshot) ----
    generation,     \* snapshot captures so far
    snapshot,       \* the current snapshot of the context, NoSnapshot when there is none
    issued,         \* every uid a snapshot has handed out
    stale,          \* the uids a later capture or a navigation has passed over
    uidCall,        \* the last tool call that took uids, and its result
    \* ---- telemetry (SpecTelemetry) ----
    navNo,          \* navigations of the view so far
    netBuf,         \* network records, one bucket per retained navigation, oldest first
    conBuf,         \* console records, likewise
    recorded,       \* every record ever created: [kind, id, nav]
    listCall,       \* the last list a network / console tool returned
    \* ---- performance trace (SpecPerf) ----
    tracing,        \* BrowserContext: a trace session is Recording
    perf,           \* the browser_perf_start / browser_perf_stop call of each caller
    \* ---- dialogs (SpecDialog) ----
    dialog,         \* BrowserContext: the pending dialog, NoDialog when there is none
    dlog,           \* dialog-open events and successful handleDialog calls so far
    dcall,          \* the browser_handle_dialog call in flight, or the last one
    \* ---- handlers as functions (SpecCalls, SpecLists) ----
    form,           \* the last run of fillFormElement: its input, its calls, its outcome
    shot,           \* the last browser_screenshot call and its result
    lbuf,           \* the records the context hands a list tool
    lres,           \* the last response of a list tool for lbuf
    \* ---- point lookup (SpecLookup) ----
    lookup,         \* the last browser_network_request / browser_console_message call
    \* ---- commands of a handler (SpecCommands) ----
    nav,            \* the last browser_navigate call: its arguments, its commands, its result
    emu,            \* the last browser_emulate call: its arguments, its commands, its result
    ff,             \* the last browser_fill_form call: its elements, its attempts, its result
    \* ---- request interceptors (SpecInterceptors) ----
    chain,          \* the runInterceptors call in flight, or the last one
    \* ---- native modules (SpecNative) ----
    nm,             \* node_modules: the scope directory, the backup, the running script
    \* ---- useLazyVisible (SpecLazy) ----
    lazy,           \* one component using the hook, and its observers
    \* ---- useAsyncHighlight (SpecHighlight) ----
    hl,             \* one component using the hook, and its highlight requests
    \* ---- spaces (SpecSpaces) ----
    spc,            \* the space folders on disk, the space index, the last deleteSpace call
    \* ---- router (SpecRouter) ----
    post,           \* the last POST /v1/messages: its headers and what the route did
    \* ---- a navigation and its load (SpecNavigation) ----
    nv              \* the browser_navigate call in flight and the load it triggered

tvars == <<tcall, under, timer, orphans, lateEffect>>

pvars == <<views, activeViewId, created, pcall, lastCall>>

svars == <<generation, snapshot, issued, stale, uidCall>>

bvars == <<navNo, netBuf, conBuf, recorded, listCall>>

fvars == <<tracing, perf>>

gvars == <<dialog, dlog, dcall>>

uvars == <<form, shot, lbuf, lres>>

kvars == <<lookup>>

cvars == <<nav, emu, ff>>

ivars == <<chain>>

mvars == <<nm>>

zvars == <<lazy>>

hvars == <<hl>>

xvars == <<spc>>

rvars == <<post>>

wvars == <<nv>>

vars == <<tcall, under, timer, orphans, lateEffect,
          views, activeViewId, created, pcall, lastCall,
          generation, snapshot, issued, stale, uidCall,
          navNo, netBuf, conBuf, recorded, listCall,
          tracing, perf,
          dialog, dlog, dcall,
          form, shot, lbuf, lres,
          lookup,
          nav, emu, ff, chain, nm, lazy, hl,
          spc, post, nv>>

\* what the actions of one specification leave alone
notTimeout == <<pvars, svars, bvars, fvars, gvars, uvars, kvars, cvars, ivars, mvars, zvars, hvars, xvars, rvars, wvars>>
notPages == <<tvars, svars, bvars, fvars, gvars, uvars, kvars, cvars, ivars, mvars, zvars, hvars, xvars, rvars, wvars>>
notSnapshot == <<tvars, pvars, bvars, fvars, gvars, uvars, kvars, cvars, ivars, mvars, zvars, hvars, xvars, rvars, wvars>>
notTelemetry == <<tvars, pvars, svars, fvars, gvars, uvars, kvars, cvars, ivars, mvars, zvars, hvars, xvars, rvars, wvars>>
notPerf == <<tvars, views, created, pcall, lastCall, svars, bvars, gvars, uvars, kvars, cvars, ivars, mvars, zvars, hvars, xvars, rvars, wvars>>
notDialog == <<tvars, pvars, svars, bvars, fvars, uvars, kvars, cvars, ivars, mvars, zvars, hvars, xvars, rvars, wvars>>
notCalls == <<tvars, pvars, svars, bvars, fvars, gvars, kvars, cvars, ivars, mvars, zvars, hvars, xvars, rvars, wvars>>
notLookup == <<tvars, pvars, svars, bvars, fvars, gvars, uvars, cvars, ivars, mvars, zvars, hvars, xvars, rvars, wvars>>
browser == <<tvars, pvars, svars, bvars, fvars, gvars, uvars, kvars>>
notCommands == <<browser, ivars, mvars, zvars, hvars, xvars, rvars, wvars>>
notInterceptors == <<browser, cvars, mvars, zvars, hvars, xvars, rvars, wvars>>
notNative == <<browser, cvars, ivars, zvars, hvars, xvars, rvars, wvars>>
notLazy == <<browser, cvars, ivars, mvars, hvars, xvars, rvars, wvars>>
notHighlight == <<browser, cvars, ivars, mvars, zvars, xvars, rvars, wvars>>
renderer == <<cvars, ivars, mvars, zvars, hvars>>
notSpaces == <<browser, renderer, rvars, wvars>>
notRouter == <<browser, renderer, xvars, wvars>>
notNavigation == <<browser, renderer, xvars, rvars>>

\* ------------------------------------------------------------------------
\* Program constants
\* ------------------------------------------------------------------------

TOOL_TIMEOUT == 60000
NAV_TIMEOUT == 30000
BLANK_PAUSE == 500
AUTOSTOP_PAUSE == 5000

\* ------------------------------------------------------------------------
\* Bounds of the model
\* ------------------------------------------------------------------------

\* elements of one browser_fill_form call
MaxElems == 2
\* abandoned operations that may be outstanding at once
MaxOrphans == 2
\* clock ticks a handler is followed while it hangs on an unguarded await
MaxHangTicks == 3
\* views created in one run
MaxCreated == 3
\* snapshot captures in one run
MaxSnapshots == 3
\* nodes of one snapshot
MaxNodes == 2
\* element arguments of one browser_evaluate call
MaxEvalArgs == 2
\* navigations of the view in one run
MaxNavs == 5
\* network records, and console records, in one run
MaxRecords == 2
\* dialogs the page opens in one run
MaxDialogs == 3
\* records of the list the context hands a list tool
MaxListLen == 3
\* the largest pageSize of a list call
MaxPageSize == 2
\* the largest pageIdx of a list call
MaxPageIdx == 2
\* interceptors of the list handed to runInterceptors
MaxInterceptors == 3
\* times a build is killed while prepare or restore runs
MaxInterrupts == 1
\* highlights one component schedules
MaxRequests == 2
\* The clock advances by at most this much in one step.
TickMs == NAV_TIMEOUT

Min(a, b) == IF a < b THEN a ELSE b

\* ------------------------------------------------------------------------
\* The 26 tools
\* ------------------------------------------------------------------------

NavigationTools ==
    {"browser_list_pages", "browser_select_page", "browser_new_page",
     "browser_close_page", "browser_navigate", "browser_wait_for",
     "browser_resize", "browser_handle_dialog"}

InputTools ==
    {"browser_click", "browser_hover", "browser_fill", "browser_fill_form",
     "browser_drag", "browser_press_key", "browser_upload_file"}

SnapshotTools == {"browser_snapshot", "browser_screenshot", "browser_evaluate"}

NetworkTools == {"browser_network_requests", "browser_network_request"}

ConsoleTools == {"browser_console", "browser_console_message"}

EmulationTools == {"browser_emulate"}

PerformanceTools == {"browser_perf_start", "browser_perf_stop", "browser_perf_insight"}

allSdkTools ==
    NavigationTools \cup InputTools \cup SnapshotTools \cup NetworkTools
        \cup ConsoleTools \cup EmulationTools \cup PerformanceTools

\* ------------------------------------------------------------------------
\* Arguments that decide which calls a handler awaits
\* ------------------------------------------------------------------------

DefaultArgs ==
    [navType |-> "url", timeout |-> 0, n |-> 1, reload |-> FALSE,
     autoStop |-> FALSE, net |-> FALSE, cpu |-> FALSE, geo |-> FALSE]

ArgsOf(tool) ==
    CASE tool = "browser_navigate" ->
            {[DefaultArgs EXCEPT !.navType = t] :
                t \in {"url", "back", "forward", "reload"}}
      [] tool \in {"browser_new_page", "browser_wait_for"} ->
            {[DefaultArgs EXCEPT !.timeout = t] : t \in {0, TOOL_TIMEOUT}}
      [] tool = "browser_fill_form" ->
            {[DefaultArgs EXCEPT !.n = k] : k \in 0..MaxElems}
      [] tool = "browser_perf_start" ->
            {[DefaultArgs EXCEPT !.reload = r, !.autoStop = s] :
                r \in BOOLEAN, s \in BOOLEAN}
      [] tool = "browser_emulate" ->
            {[DefaultArgs EXCEPT !.net = a, !.cpu = b, !.geo = c] :
                a \in BOOLEAN, b \in BOOLEAN, c \in BOOLEAN}
      [] OTHER -> {DefaultArgs}

\* ------------------------------------------------------------------------
\* The awaits of a handler.  A step names the underlying call and how the
\* await is guarded:
\*   "withTimeout"  the call is passed to withTimeout(promise, ms, label)
\*   "own"          the call takes a timeout argument and fails by itself
\*   "sleep"        new Promise(resolve => setTimeout(resolve, ms))
\*   "none"         the promise is awaited as it is
\* ------------------------------------------------------------------------

Step(op, guard, ms) == [op |-> op, guard |-> guard, ms |-> ms]

\* const timeout = (args.timeout && args.timeout > 0) ? args.timeout : NAV_TIMEOUT
EffectiveTimeout(t) == IF t > 0 THEN t ELSE NAV_TIMEOUT

Repeat(s, k) == [i \in 1..k |-> s]

NavigationPlan(tool, a) ==
    CASE tool = "browser_new_page" ->
            <<Step("create", "none", 0),
              Step("waitForNavigation", "own", EffectiveTimeout(a.timeout))>>
      [] tool = "browser_navigate" ->
            IF a.navType = "url"
            THEN <<Step("navigate", "none", 0),
                   Step("waitForNavigation", "own", EffectiveTimeout(a.timeout))>>
            ELSE <<Step("waitForNavigation", "own", EffectiveTimeout(a.timeout))>>
      [] tool = "browser_wait_for" ->
            <<Step("waitForText", "own", EffectiveTimeout(a.timeout))>>
      [] tool = "browser_resize" -> <<Step("setViewportSize", "none", 0)>>
      [] tool = "browser_handle_dialog" -> <<Step("handleDialog", "none", 0)>>
      [] OTHER -> <<>>

InputPlan(tool, a) ==
    CASE tool = "browser_click" -> <<Step("clickElement", "withTimeout", TOOL_TIMEOUT)>>
      [] tool = "browser_hover" -> <<Step("hoverElement", "withTimeout", TOOL_TIMEOUT)>>
      [] tool = "browser_fill" -> <<Step("fillFormElement", "withTimeout", TOOL_TIMEOUT)>>
      [] tool = "browser_fill_form" ->
            Repeat(Step("fillFormElement", "withTimeout", TOOL_TIMEOUT), a.n)
      [] tool = "browser_drag" -> <<Step("dragElement", "withTimeout", TOOL_TIMEOUT)>>
      [] tool = "browser_press_key" -> <<Step("pressKey", "withTimeout", TOOL_TIMEOUT)>>
      [] tool = "browser_upload_file" ->
            <<Step("sendCDPCommand", "withTimeout", TOOL_TIMEOUT)>>
      [] OTHER -> <<>>

SnapshotPlan(tool, a) ==
    CASE tool = "browser_snapshot" ->
            <<Step("createSnapshot", "withTimeout", TOOL_TIMEOUT)>>
      [] tool = "browser_screenshot" ->
            <<Step("captureScreenshot", "withTimeout", TOOL_TIMEOUT)>>
      [] tool = "browser_evaluate" ->
            <<Step("evaluateScript", "withTimeout", TOOL_TIMEOUT)>>
      [] OTHER -> <<>>

EmulationPlan(tool, a) ==
    (IF a.net THEN <<Step("sendCDPCommand", "none", 0)>> ELSE <<>>)
        \o (IF a.cpu THEN <<Step("sendCDPCommand", "none", 0)>> ELSE <<>>)
        \o (IF a.geo THEN <<Step("sendCDPCommand", "none", 0)>> ELSE <<>>)

PerformancePlan(tool, a) ==
    CASE tool = "browser_perf_start" ->
            (IF a.reload
             THEN <<Step("navigate", "none", 0),
                    Step("pause", "sleep", BLANK_PAUSE),
                    Step("startPerformanceTrace", "none", 0),
                    Step("navigate", "none", 0),
                    Step("waitForNavigation", "own", NAV_TIMEOUT)>>
             ELSE <<Step("startPerformanceTrace", "none", 0)>>)
            \o (IF a.autoStop
                THEN <<Step("pause", "sleep", AUTOSTOP_PAUSE),
                       Step("stopPerformanceTrace", "none", 0)>>
                ELSE <<>>)
      [] tool = "browser_perf_stop" -> <<Step("stopPerformanceTrace", "none", 0)>>
      [] tool = "browser_perf_insight" -> <<Step("getPerformanceMetrics", "none", 0)>>
      [] OTHER -> <<>>

\* The network and console tools call the context synchronously and await nothing.
Plan(tool, a) ==
    CASE tool \in NavigationTools -> NavigationPlan(tool, a)
      [] tool \in InputTools -> InputPlan(tool, a)
      [] tool \in SnapshotTools -> SnapshotPlan(tool, a)
      [] tool \in EmulationTools -> EmulationPlan(tool, a)
      [] tool \in PerformanceTools -> PerformancePlan(tool, a)
      [] OTHER -> <<>>

\* ------------------------------------------------------------------------
\* Results
\* ------------------------------------------------------------------------

\* textResult(text, isError): the text is kept as what it says (why) and, for
\* a timeout, the duration it names.
textResult(why, isError, ms) == [isError |-> isError, why |-> why, ms |-> ms]

NoResult == textResult("none", FALSE, 0)

\* ------------------------------------------------------------------------
\* withTimeout and the timers of the other awaits
\* ------------------------------------------------------------------------

NoTimer == [armed |-> FALSE, kind |-> "none", remaining |-> 0, ms |-> 0]

Armed(kind, ms) == [armed |-> TRUE, kind |-> kind, remaining |-> ms, ms |-> ms]

\* withTimeout: setTimeout(() => reject(new Error(`${label} timed out after ${ms}ms`)), ms)
withTimeout_NoTimer(ms) == NoTimer
withTimeout(ms) == Armed("withTimeout", ms)

ArmFor(step) ==
    CASE step.guard = "withTimeout" -> withTimeout(step.ms)
      [] step.guard = "own" -> Armed("own", step.ms)
      [] step.guard = "sleep" -> Armed("sleep", step.ms)
      [] OTHER -> NoTimer

\* ------------------------------------------------------------------------
\* The handler as a walk over its awaits
\* ------------------------------------------------------------------------

IdleCall ==
    [pc |-> "idle", tool |-> "none", plan |-> <<>>, idx |-> 0, elapsed |-> 0,
     errors |-> 0, abandoned |-> 0, result |-> NoResult]

\* the result after the last await: browser_fill_form reports the failures
\* it collected, every other handler its success text
FinalResult(c) ==
    IF c.tool = "browser_fill_form" /\ c.errors > 0
    THEN textResult("partial", c.errors = Len(c.plan), 0)
    ELSE textResult("ok", FALSE, 0)

\* the handler goes on after the await at c.idx: to the next await, or to its
\* return statement
Continue(c) ==
    IF c.idx < Len(c.plan)
    THEN /\ tcall' = [c EXCEPT !.idx = c.idx + 1, !.elapsed = 0]
         /\ under' = IF c.plan[c.idx + 1].guard = "sleep" THEN "none" ELSE "pending"
         /\ timer' = ArmFor(c.plan[c.idx + 1])
    ELSE /\ tcall' = [c EXCEPT !.pc = "returned", !.result = FinalResult(c)]
         /\ under' = "none"
         /\ timer' = NoTimer

\* the await at c.idx threw: the catch block of the handler.  browser_fill_form
\* pushes the message and goes on with the next element; browser_wait_for
\* answers with its own timeout text whatever was thrown.
Catch(c, why, ms) ==
    IF c.tool = "browser_fill_form"
    THEN Continue([c EXCEPT !.errors = c.errors + 1])
    ELSE /\ tcall' = [c EXCEPT !.pc = "returned",
                               !.result = IF c.tool = "browser_wait_for"
                                          THEN textResult("wait timeout", TRUE, 0)
                                          ELSE textResult(why, TRUE, ms)]
         /\ under' = "none"
         /\ timer' = NoTimer

GuardedSteps(plan) == Cardinality({i \in 1..Len(plan) : plan[i].guard = "withTimeout"})

\* a tool call arrives; a handler that awaits nothing returns at once
Invoke ==
    \E tool \in allSdkTools : \E a \in ArgsOf(tool) :
        LET plan == Plan(tool, a)
            c == [IdleCall EXCEPT !.tool = tool, !.plan = plan, !.pc = "awaiting"]
        IN /\ tcall.pc \in {"idle", "returned"}
           /\ orphans + GuardedSteps(plan) <= MaxOrphans
           /\ Continue(c)
           /\ UNCHANGED <<orphans, lateEffect>>
           /\ UNCHANGED notTimeout

\* the underlying operation completes: clearTimeout(timer); resolve(v)
OpResolves ==
    /\ tcall.pc = "awaiting"
    /\ under = "pending"
    /\ Continue(tcall)
    /\ UNCHANGED <<orphans, lateEffect>>
    /\ UNCHANGED notTimeout

\* the underlying operation fails: clearTimeout(timer); reject(e)
OpRejects ==
    /\ tcall.pc = "awaiting"
    /\ under = "pending"
    /\ Catch(tcall, "failed", 0)
    /\ UNCHANGED <<orphans, lateEffect>>
    /\ UNCHANGED notTimeout

\* the timer of the current await fires
TimerFires ==
    /\ tcall.pc = "awaiting"
    /\ timer.armed
    /\ timer.remaining = 0
    /\ CASE timer.kind = "withTimeout" ->
              \* reject(new Error(...)): the promise passed in is left as it is
              /\ Catch([tcall EXCEPT !.abandoned = tcall.abandoned + 1],
                       "timed out", timer.ms)
              /\ orphans' = orphans + 1
         [] timer.kind = "own" ->
              \* the awaited call fails by itself and releases its subscription
              /\ Catch(tcall, "failed", 0)
              /\ orphans' = orphans
         [] OTHER ->
              \* the pause is over
              /\ Continue(tcall)
              /\ orphans' = orphans
    /\ UNCHANGED lateEffect
    /\ UNCHANGED notTimeout

\* an abandoned operation completes after all and has its effect on the page
OrphanResolves ==
    /\ orphans > 0
    /\ orphans' = orphans - 1
    /\ lateEffect' = (lateEffect \/ tcall.pc # "awaiting")
    /\ UNCHANGED <<tcall, under, timer>>
    /\ UNCHANGED notTimeout

OrphanRejects ==
    /\ orphans > 0
    /\ orphans' = orphans - 1
    /\ UNCHANGED <<tcall, under, timer, lateEffect>>
    /\ UNCHANGED notTimeout

\* time passes: up to the next deadline, and never past a timer that is due
Tick ==
    /\ tcall.pc = "awaiting"
    /\ ~(timer.armed /\ timer.remaining = 0)
    /\ tcall.elapsed < MaxHangTicks * TickMs
    /\ LET d == IF timer.armed THEN Min(timer.remaining, TickMs) ELSE TickMs
       IN /\ tcall' = [tcall EXCEPT !.elapsed = tcall.elapsed + d]
          /\ timer' = IF timer.armed
                      THEN [timer EXCEPT !.remaining = timer.remaining - d]
                      ELSE timer
    /\ UNCHANGED <<under, orphans, lateEffect>>
    /\ UNCHANGED notTimeout

\* ------------------------------------------------------------------------
\* ViewManager and the active view of BrowserContext
\* ------------------------------------------------------------------------

NoView == 0

\* "the preserved requests over the last 3 navigations"
RETENTION == 3

\* what indexing an array off its elements yields
Undefined == 0

Range(f) == {f[i] : i \in DOMAIN f}

Remove(seq, x) == SelectSeq(seq, LAMBDA y : y # x)

\* ViewManager.getAllStates(): the live views in list order
getAllStates == views

\* ViewManager.destroy(id): fails on the only remaining view, else removes it
destroy(vs, id) ==
    IF Len(vs) <= 1 \/ id \notin Range(vs)
    THEN [ok |-> FALSE, views |-> vs]
    ELSE [ok |-> TRUE, views |-> Remove(vs, id)]

\* BrowserContext.setActiveViewId(id): fails for an id that is no live view
setActiveViewId(vs, id) == id \in Range(vs)

\* ------------------------------------------------------------------------
\* Page tools.  pageIdx is z.number(): any number, whole or not.  The model
\* counts it in halves: k stands for pageIdx = k / 2.
\* ------------------------------------------------------------------------

PageIdxHalves == (0 - 2)..(2 * MaxCreated)

\* args.pageIdx < 0 || args.pageIdx >= states.length
InvalidIndex(k, states) == k < 0 \/ k >= 2 * Len(states)

\* states[args.pageIdx]
At(states, k) == IF k % 2 = 0 THEN states[(k \div 2) + 1] ELSE Undefined

NoCall ==
    [tool |-> "none", outcome |-> "none", before |-> 0, listed |-> 0, target |-> NoView]

Called(tool, outcome, target) ==
    [tool |-> tool, outcome |-> outcome, before |-> Len(views),
     listed |-> 0, target |-> target]

IdlePage == [pc |-> "idle", viewId |-> NoView]

\* browser_list_pages: one line per state of getAllStates()
browser_list_pages ==
    /\ pcall.pc = "idle"
    /\ lastCall' = [Called("browser_list_pages", "ok", NoView)
                        EXCEPT !.listed = Len(getAllStates)]
    /\ UNCHANGED <<views, activeViewId, created, pcall>>
    /\ UNCHANGED notPages

\* browser_select_page: what the handler does for pageIdx = k / 2 when
\* setActiveViewId fails (fault) or not.  outcome "threw" is an exception
\* that leaves the handler.
SelectPage(states, k, fault) ==
    IF InvalidIndex(k, states)
    THEN [outcome |-> "error", active |-> NoView]
    ELSE IF At(states, k) = Undefined
    THEN [outcome |-> "threw", active |-> NoView]          \* state.id of undefined
    ELSE IF fault \/ ~setActiveViewId(states, At(states, k))
    THEN [outcome |-> "threw", active |-> NoView]
    ELSE [outcome |-> "ok", active |-> At(states, k)]

browser_select_page ==
    \E k \in PageIdxHalves : \E fault \in BOOLEAN :
        LET r == SelectPage(getAllStates, k, fault)
        IN /\ pcall.pc = "idle"
           /\ activeViewId' = IF r.outcome = "ok" THEN r.active ELSE activeViewId
           /\ lastCall' = Called("browser_select_page", r.outcome, r.active)
           /\ UNCHANGED <<views, created, pcall>>
           /\ UNCHANGED notPages

\* browser_close_page: what the handler does for pageIdx = k / 2 when
\* destroy fails for a reason of its own (fault) or not
ClosePage_NoLastPageCheck(states, k, fault) ==
    IF InvalidIndex(k, states)
    THEN [outcome |-> "error", views |-> states, target |-> NoView]
    ELSE IF At(states, k) = Undefined
    THEN [outcome |-> "threw", views |-> states, target |-> NoView]
    ELSE IF fault \/ ~destroy(states, At(states, k)).ok
    THEN [outcome |-> "threw", views |-> states, target |-> At(states, k)]
    ELSE [outcome |-> "ok", views |-> destroy(states, At(states, k)).views,
          target |-> At(states, k)]
ClosePage(states, k, fault) ==
    IF InvalidIndex(k, states)
    THEN [outcome |-> "error", views |-> states, target |-> NoView]
    ELSE IF Len(states) = 1
    THEN [outcome |-> "error", views |-> states, target |-> NoView]
    ELSE IF At(states, k) = Undefined
    THEN [outcome |-> "threw", views |-> states, target |-> NoView]   \* state.id of undefined
    ELSE IF fault \/ ~destroy(states, At(states, k)).ok
    THEN [outcome |-> "threw", views |-> states, target |-> At(states, k)]
    ELSE [outcome |-> "ok", views |-> destroy(states, At(states, k)).views,
          target |-> At(states, k)]

\* the handler leaves the active view id of the context alone
browser_close_page ==
    \E k \in PageIdxHalves : \E fault \in BOOLEAN :
        LET r == ClosePage(getAllStates, k, fault)
        IN /\ pcall.pc = "idle"
           /\ views' = r.views
           /\ lastCall' = Called("browser_close_page", r.outcome, r.target)
           /\ UNCHANGED <<activeViewId, created, pcall>>
           /\ UNCHANGED notPages

\* browser_new_page, up to its first await: await browserViewManager.create(viewId, url).
\* No call has returned while this one is in flight.
NewPageStart ==
    /\ pcall.pc = "idle"
    /\ created < MaxCreated
    /\ created' = created + 1
    /\ pcall' = [pc |-> "create", viewId |-> created + 1]
    /\ lastCall' = NoCall
    /\ UNCHANGED <<views, activeViewId>>
    /\ UNCHANGED notPages

\* create settles.  When it resolves the view is registered and the handler
\* makes it the active view and awaits waitForNavigation(timeout); when it
\* rejects, or setActiveViewId throws, the catch block answers.
NewPageCreated ==
    \E ok \in BOOLEAN : \E fault \in BOOLEAN :
        /\ pcall.pc = "create"
        /\ IF ~ok
           THEN /\ lastCall' = Called("browser_new_page", "error", pcall.viewId)
                /\ pcall' = IdlePage
                /\ UNCHANGED <<views, activeViewId>>
           ELSE /\ views' = Append(views, pcall.viewId)
                /\ IF fault \/ ~setActiveViewId(views', pcall.viewId)
                   THEN /\ lastCall' = Called("browser_new_page", "error", pcall.viewId)
                        /\ pcall' = IdlePage
                        /\ UNCHANGED activeViewId
                   ELSE /\ activeViewId' = pcall.viewId
                        /\ pcall' = [pcall EXCEPT !.pc = "wait"]
                        /\ UNCHANGED lastCall
        /\ UNCHANGED created
        /\ UNCHANGED notPages

\* a handler that destroyed the view again when the wait fails
NewPageWaited_RollsBack ==
    \E loaded \in BOOLEAN :
        /\ pcall.pc = "wait"
        /\ lastCall' = Called("browser_new_page", IF loaded THEN "ok" ELSE "error",
                              pcall.viewId)
        /\ pcall' = IdlePage
        /\ views' = IF loaded THEN views ELSE SubSeq(views, 1, Len(views) - 1)
        /\ activeViewId' = IF loaded THEN activeViewId ELSE NoView
        /\ UNCHANGED created
        /\ UNCHANGED notPages

\* waitForNavigation settles: the load completed, or the wait timed out or failed
NewPageWaited ==
    \E loaded \in BOOLEAN :
        /\ pcall.pc = "wait"
        /\ lastCall' = Called("browser_new_page", IF loaded THEN "ok" ELSE "error",
                              pcall.viewId)
        /\ pcall' = IdlePage
        /\ UNCHANGED <<views, activeViewId, created>>
        /\ UNCHANGED notPages

\* ------------------------------------------------------------------------
\* Snapshots and uids
\* ------------------------------------------------------------------------

NoSnapshot == [gen |-> 0, size |-> 0]

NoElement == [gen |-> 0, n |-> 0]

\* the uids of the snapshot of generation g with k nodes
UidsOf(g, k) == {[gen |-> g, n |-> i] : i \in 1..k}

\* BrowserContext.getElementByUid(uid): the node of the current generation's
\* map, nothing on a miss or a generation mismatch
getElementByUid(uid) ==
    IF snapshot # NoSnapshot /\ uid.gen = snapshot.gen /\ uid.n \in 1..snapshot.size
    THEN uid
    ELSE NoElement

\* BrowserContext.createSnapshot(verbose): the next generation replaces the
\* current snapshot
SnapshotCreated(size) ==
    /\ generation' = generation + 1
    /\ snapshot' = [gen |-> generation + 1, size |-> size]
    /\ issued' = issued \cup UidsOf(generation + 1, size)
    /\ stale' = issued

NoUidCall == [tool |-> "none", args |-> 0, wasStale |-> FALSE, outcome |-> "none"]

\* what the last call was given and what it answered: the number of uids,
\* whether one of them was stale at the call, and the kind of result
UidCalled(tool, uids, outcome) ==
    [tool |-> tool, args |-> Len(uids),
     wasStale |-> \E i \in DOMAIN uids : uids[i] \in stale,
     outcome |-> outcome]

\* browser_snapshot: await withTimeout(browserContext.createSnapshot(..))
browser_snapshot ==
    \E size \in 1..MaxNodes : \E fails \in BOOLEAN :
        /\ generation < MaxSnapshots
        /\ IF activeViewId = NoView \/ fails
           THEN UNCHANGED <<generation, snapshot, issued, stale>>
           ELSE SnapshotCreated(size)
        /\ uidCall' = UidCalled("browser_snapshot", <<>>,
                                IF activeViewId = NoView \/ fails THEN "error" ELSE "ok")
        /\ UNCHANGED notSnapshot

\* the page of the active view navigates: the uids of its snapshot are gone
PageNavigated ==
    /\ activeViewId # NoView
    /\ snapshot' = NoSnapshot
    /\ stale' = issued
    /\ uidCall' = NoUidCall
    /\ UNCHANGED <<generation, issued>>
    /\ UNCHANGED notSnapshot

\* browser_upload_file: the result for a uid when the CDP command fails or not
UploadFile_NoElementCheck(uid, cmdFails) ==
    IF activeViewId = NoView THEN "error"
    ELSE IF cmdFails THEN "error"
    ELSE "ok"
UploadFile(uid, cmdFails) ==
    IF activeViewId = NoView THEN "error"
    ELSE IF getElementByUid(uid) = NoElement THEN "error"   \* throw new Error(`Element not found`)
    ELSE IF cmdFails THEN "error"
    ELSE "ok"

browser_upload_file ==
    \E uid \in issued : \E cmdFails \in BOOLEAN :
        /\ uidCall' = UidCalled("browser_upload_file", <<uid>>, UploadFile(uid, cmdFails))
        /\ UNCHANGED <<generation, snapshot, issued, stale>>
        /\ UNCHANGED notSnapshot

\* browser_evaluate: every element argument is looked up before the script runs
Evaluate(uids, scriptFails) ==
    IF activeViewId = NoView THEN "error"
    ELSE IF \E i \in DOMAIN uids : getElementByUid(uids[i]) = NoElement THEN "error"
    ELSE IF scriptFails THEN "error"
    ELSE "ok"

browser_evaluate ==
    \E k \in 0..MaxEvalArgs : \E uids \in [1..k -> issued] : \E scriptFails \in BOOLEAN :
        /\ uidCall' = UidCalled("browser_evaluate", uids, Evaluate(uids, scriptFails))
        /\ UNCHANGED <<generation, snapshot, issued, stale>>
        /\ UNCHANGED notSnapshot

\* BrowserContext.clickElement / fillElement: resolve the uid, then act on the node
ElementAction(uid, cmdFails) ==
    IF getElementByUid(uid) = NoElement THEN "rejected"
    ELSE IF cmdFails THEN "rejected"
    ELSE "resolved"

\* browser_click: await withTimeout(clickElement(uid, ..)) inside try / catch
Click(uid, cmdFails) ==
    IF activeViewId = NoView THEN "error"
    ELSE IF ElementAction(uid, cmdFails) = "rejected" THEN "error"
    ELSE "ok"

browser_click ==
    \E uid \in issued : \E cmdFails \in BOOLEAN :
        /\ uidCall' = UidCalled("browser_click", <<uid>>, Click(uid, cmdFails))
        /\ UNCHANGED <<generation, snapshot, issued, stale>>
        /\ UNCHANGED notSnapshot

\* browser_fill: await withTimeout(fillFormElement(uid, value)); an element
\* that is not found is no combobox, and fillElement is called for the uid
Fill(uid, cmdFails) ==
    IF activeViewId = NoView THEN "error"
    ELSE IF ElementAction(uid, cmdFails) = "rejected" THEN "error"
    ELSE "ok"

browser_fill ==
    \E uid \in issued : \E cmdFails \in BOOLEAN :
        /\ uidCall' = UidCalled("browser_fill", <<uid>>, Fill(uid, cmdFails))
        /\ UNCHANGED <<generation, snapshot, issued, stale>>
        /\ UNCHANGED notSnapshot

\* ------------------------------------------------------------------------
\* Network and console telemetry of a view
\* ------------------------------------------------------------------------

Bucket(n) == [nav |-> n, recs |-> <<>>]

\* whole-navigation eviction, oldest first, once more than the current
\* navigation and RETENTION earlier ones are held
Retain_All(buf) == buf
Retain(buf) == IF Len(buf) > RETENTION + 1 THEN Tail(buf) ELSE buf

\* a navigation starts a new bucket
OnNavigation(buf, n) == Retain(Append(buf, Bucket(n)))

\* a record of the current navigation
OnRecord(buf, r) == [buf EXCEPT ![Len(buf)].recs = Append(@, r)]

RECURSIVE Flatten(_)
Flatten(buf) == IF buf = <<>> THEN <<>> ELSE Head(buf).recs \o Flatten(Tail(buf))

\* BrowserContext.getNetworkRequests(includePreserved)
getNetworkRequests(includePreserved) ==
    IF includePreserved THEN Flatten(netBuf) ELSE netBuf[Len(netBuf)].recs

\* BrowserContext.getConsoleMessages(includePreserved)
getConsoleMessages(includePreserved) ==
    IF includePreserved THEN Flatten(conBuf) ELSE conBuf[Len(conBuf)].recs

Count(kind) == Cardinality({r \in recorded : r.kind = kind})

\* a list describes the buffers at the moment of the call: an event ends that
NoList == [tool |-> "none", preserved |-> FALSE, recs |-> <<>>]

\* Network.requestWillBeSent: a request record of the current navigation
RequestEvent ==
    /\ Count("net") < MaxRecords
    /\ LET r == [kind |-> "net", id |-> Count("net") + 1, nav |-> navNo]
       IN /\ netBuf' = OnRecord(netBuf, r)
          /\ recorded' = recorded \cup {r}
    /\ listCall' = NoList
    /\ UNCHANGED <<navNo, conBuf>>
    /\ UNCHANGED notTelemetry

\* Runtime.consoleAPICalled: a console record of the current navigation
ConsoleEvent ==
    /\ Count("con") < MaxRecords
    /\ LET r == [kind |-> "con", id |-> Count("con") + 1, nav |-> navNo]
       IN /\ conBuf' = OnRecord(conBuf, r)
          /\ recorded' = recorded \cup {r}
    /\ listCall' = NoList
    /\ UNCHANGED <<navNo, netBuf>>
    /\ UNCHANGED notTelemetry

\* the view navigates
Navigated ==
    /\ navNo < MaxNavs
    /\ navNo' = navNo + 1
    /\ netBuf' = OnNavigation(netBuf, navNo + 1)
    /\ conBuf' = OnNavigation(conBuf, navNo + 1)
    /\ listCall' = NoList
    /\ UNCHANGED recorded
    /\ UNCHANGED notTelemetry

\* browser_network_requests: getNetworkRequests(args.includePreservedRequests || false)
browser_network_requests ==
    \E includePreserved \in BOOLEAN :
        /\ listCall' = [tool |-> "browser_network_requests",
                        preserved |-> includePreserved,
                        recs |-> getNetworkRequests(includePreserved)]
        /\ UNCHANGED <<navNo, netBuf, conBuf, recorded>>
        /\ UNCHANGED notTelemetry

\* browser_console: getConsoleMessages(args.includePreservedMessages || false)
browser_console ==
    \E includePreserved \in BOOLEAN :
        /\ listCall' = [tool |-> "browser_console",
                        preserved |-> includePreserved,
                        recs |-> getConsoleMessages(includePreserved)]
        /\ UNCHANGED <<navNo, netBuf, conBuf, recorded>>
        /\ UNCHANGED notTelemetry

\* ------------------------------------------------------------------------
\* The performance trace
\* ------------------------------------------------------------------------

\* the agents that may have a performance call in flight at the same time
PerfCallers == {"a", "b"}

NoPerfResult == [why |-> "none", isError |-> FALSE, tracingAfter |-> FALSE]

IdlePerf ==
    [pc |-> "idle", tool |-> "none", reload |-> FALSE, autoStop |-> FALSE,
     wasTracing |-> FALSE, called |-> {}, result |-> NoPerfResult]

\* BrowserContext.isPerformanceTracing()
isPerformanceTracing == tracing

\* the handler returns textResult(why, isError)
PerfReturn(c, call, why, isError) ==
    perf' = [perf EXCEPT ![c] =
                [call EXCEPT !.pc = "idle",
                             !.result = [why |-> why, isError |-> isError,
                                         tracingAfter |-> tracing']]]

PerfAwait(c, call, pc, op) ==
    perf' = [perf EXCEPT ![c] = [call EXCEPT !.pc = pc, !.called = @ \cup {op}]]

\* browser_perf_start up to its first await: where the handler goes for an
\* active view id, a tracing state and the reload argument
PerfStartEntry_NoTracingGuard(active, isTracing, reload) ==
    IF active = NoView THEN [pc |-> "idle", why |-> "no active page", op |-> "none"]
    ELSE IF reload THEN [pc |-> "blank", why |-> "none", op |-> "navigate"]
    ELSE [pc |-> "starting", why |-> "none", op |-> "startPerformanceTrace"]
PerfStartEntry(active, isTracing, reload) ==
    IF active = NoView THEN [pc |-> "idle", why |-> "no active page", op |-> "none"]
    ELSE IF isTracing THEN [pc |-> "idle", why |-> "already running", op |-> "none"]
    ELSE IF reload THEN [pc |-> "blank", why |-> "none", op |-> "navigate"]
    ELSE [pc |-> "starting", why |-> "none", op |-> "startPerformanceTrace"]

PerfStartIssued ==
    \E c \in PerfCallers : \E reload \in BOOLEAN : \E autoStop \in BOOLEAN :
        LET e == PerfStartEntry(activeViewId, isPerformanceTracing, reload)
            call == [IdlePerf EXCEPT !.tool = "browser_perf_start", !.reload = reload,
                                     !.autoStop = autoStop, !.wasTracing = tracing]
        IN /\ perf[c].pc = "idle"
           /\ tracing' = tracing
           /\ IF e.pc = "idle"
              THEN PerfReturn(c, call, e.why, TRUE)
              ELSE PerfAwait(c, call, e.pc, e.op)
           /\ UNCHANGED activeViewId
           /\ UNCHANGED notPerf

\* after the trace was started (and the page reloaded): autoStop or return
PerfAfterStart(c, call) ==
    IF call.autoStop
    THEN perf' = [perf EXCEPT ![c] = [call EXCEPT !.pc = "autopause"]]
    ELSE PerfReturn(c, call, "recording", FALSE)

\* await browserViewManager.navigate(viewId, 'about:blank') settles
PerfBlankSettles ==
    \E c \in PerfCallers : \E ok \in BOOLEAN :
        /\ perf[c].pc = "blank"
        /\ tracing' = tracing
        /\ IF ok
           THEN perf' = [perf EXCEPT ![c].pc = "pause"]
           ELSE PerfReturn(c, perf[c], "failed", TRUE)
        /\ UNCHANGED activeViewId
        /\ UNCHANGED notPerf

\* the 500 ms pause is over: await browserContext.startPerformanceTrace()
PerfPauseOver ==
    \E c \in PerfCallers :
        /\ perf[c].pc = "pause"
        /\ PerfAwait(c, perf[c], "starting", "startPerformanceTrace")
        /\ UNCHANGED <<tracing, activeViewId>>
        /\ UNCHANGED notPerf

\* BrowserContext.startPerformanceTrace() settles: it fails while a trace is
\* Recording, and may fail for a reason of the protocol
PerfStartSettles ==
    \E c \in PerfCallers : \E ok \in BOOLEAN :
        /\ perf[c].pc = "starting"
        /\ IF tracing \/ ~ok
           THEN /\ tracing' = tracing
                /\ PerfReturn(c, perf[c], "failed", TRUE)
           ELSE /\ tracing' = TRUE
                /\ IF perf[c].reload
                   THEN PerfAwait(c, perf[c], "back", "navigate")
                   ELSE PerfAfterStart(c, perf[c])
        /\ UNCHANGED activeViewId
        /\ UNCHANGED notPerf

\* await browserViewManager.navigate(viewId, currentUrl) settles
PerfBackSettles ==
    \E c \in PerfCallers : \E ok \in BOOLEAN :
        /\ perf[c].pc = "back"
        /\ tracing' = tracing
        /\ IF ok
           THEN PerfAwait(c, perf[c], "wait", "waitForNavigation")
           ELSE PerfReturn(c, perf[c], "failed", TRUE)
        /\ UNCHANGED activeViewId
        /\ UNCHANGED notPerf

\* await browserContext.waitForNavigation(NAV_TIMEOUT) settles
PerfWaitSettles ==
    \E c \in PerfCallers : \E ok \in BOOLEAN :
        /\ perf[c].pc = "wait"
        /\ tracing' = tracing
        /\ IF ok
           THEN PerfAfterStart(c, perf[c])
           ELSE PerfReturn(c, perf[c], "failed", TRUE)
        /\ UNCHANGED activeViewId
        /\ UNCHANGED notPerf

\* the 5000 ms pause is over: await browserContext.stopPerformanceTrace()
PerfAutoPauseOver ==
    \E c \in PerfCallers :
        /\ perf[c].pc = "autopause"
        /\ PerfAwait(c, perf[c], "stopping", "stopPerformanceTrace")
        /\ UNCHANGED <<tracing, activeViewId>>
        /\ UNCHANGED notPerf

\* BrowserContext.stopPerformanceTrace() settles: the session is Idle again
PerfStopSettles ==
    \E c \in PerfCallers : \E ok \in BOOLEAN :
        /\ perf[c].pc = "stopping"
        /\ IF ok
           THEN /\ tracing' = FALSE
                /\ PerfReturn(c, perf[c], "stopped", FALSE)
           ELSE /\ tracing' = tracing
                /\ PerfReturn(c, perf[c], "failed", TRUE)
        /\ UNCHANGED activeViewId
        /\ UNCHANGED notPerf

\* browser_perf_stop up to its await: where the handler goes for an active
\* view id and a tracing state
PerfStopEntry_NoTracingGuard(active, isTracing) ==
    IF active = NoView
    THEN [pc |-> "idle", why |-> "no active page", isError |-> TRUE, op |-> "none"]
    ELSE [pc |-> "stopping", why |-> "none", isError |-> FALSE, op |-> "stopPerformanceTrace"]
PerfStopEntry(active, isTracing) ==
    IF active = NoView
    THEN [pc |-> "idle", why |-> "no active page", isError |-> TRUE, op |-> "none"]
    ELSE IF ~isTracing
    THEN [pc |-> "idle", why |-> "not running", isError |-> FALSE, op |-> "none"]
    ELSE [pc |-> "stopping", why |-> "none", isError |-> FALSE, op |-> "stopPerformanceTrace"]

browser_perf_stop ==
    \E c \in PerfCallers :
        LET call == [IdlePerf EXCEPT !.tool = "browser_perf_stop", !.wasTracing = tracing]
            e == PerfStopEntry(activeViewId, isPerformanceTracing)
        IN /\ perf[c].pc = "idle"
           /\ tracing' = tracing
           /\ IF e.pc = "idle"
              THEN PerfReturn(c, call, e.why, e.isError)
              ELSE PerfAwait(c, call, e.pc, e.op)
           /\ UNCHANGED activeViewId
           /\ UNCHANGED notPerf

\* ------------------------------------------------------------------------
\* Dialogs
\* ------------------------------------------------------------------------

NoDialog == "none"

DialogTypes == {"alert", "confirm", "prompt", "beforeunload"}

\* BrowserContext.getPendingDialog()
getPendingDialog == dialog

NoDialogResult == [why |-> "none", isError |-> FALSE, opens |-> 0]

IdleDialogCall ==
    [pc |-> "idle", tool |-> "none", accept |-> FALSE, promptText |-> FALSE,
     wasPending |-> FALSE, afterSuccess |-> FALSE, called |-> FALSE,
     result |-> NoDialogResult]

\* the handler returns textResult(why, isError)
DialogReturn(call, why, isError) ==
    [call EXCEPT !.pc = "idle",
                 !.result = [why |-> why, isError |-> isError, opens |-> dlog.opens]]

\* Page.javascriptDialogOpening: the page shows a dialog and waits for it
DialogOpened ==
    \E type \in DialogTypes :
        /\ dialog = NoDialog
        /\ dlog.opens < MaxDialogs
        /\ dialog' = type
        /\ dlog' = [dlog EXCEPT !.opens = @ + 1]
        /\ UNCHANGED dcall
        /\ UNCHANGED notDialog

\* browser_handle_dialog up to its await: where the handler goes for what
\* getPendingDialog() returned
HandleDialogEntry_NoPendingCheck(pending) ==
    [pc |-> "handling", why |-> "none"]
HandleDialogEntry(pending) ==
    IF pending = NoDialog
    THEN [pc |-> "idle", why |-> "no dialog"]     \* 'No open dialog found'
    ELSE [pc |-> "handling", why |-> "none"]

browser_handle_dialog ==
    \E accept \in BOOLEAN : \E promptText \in BOOLEAN :
        LET e == HandleDialogEntry(getPendingDialog)
            call == [IdleDialogCall EXCEPT
                        !.tool = "browser_handle_dialog",
                        !.accept = accept,
                        !.promptText = promptText,
                        !.wasPending = (dialog # NoDialog),
                        !.afterSuccess = /\ dcall.tool = "browser_handle_dialog"
                                         /\ ~dcall.result.isError
                                         /\ dcall.result.opens = dlog.opens]
        IN /\ dcall.pc = "idle"
           /\ dcall' = IF e.pc = "idle"
                       THEN DialogReturn(call, e.why, TRUE)
                       ELSE [call EXCEPT !.pc = e.pc, !.called = TRUE]
           /\ UNCHANGED <<dialog, dlog>>
           /\ UNCHANGED notDialog

\* BrowserContext.handleDialog(accept, promptText) settles: it fails when no
\* dialog is pending, may fail for a reason of the protocol, and clears the
\* pending dialog when it succeeds
HandleDialogSettles ==
    \E ok \in BOOLEAN :
        /\ dcall.pc = "handling"
        /\ IF dialog = NoDialog \/ ~ok
           THEN /\ dcall' = DialogReturn(dcall, "failed", TRUE)
                /\ UNCHANGED <<dialog, dlog>>
           ELSE /\ dcall' = DialogReturn(dcall, IF dcall.accept THEN "accepted" ELSE "dismissed", FALSE)
                /\ dialog' = NoDialog
                /\ dlog' = [dlog EXCEPT !.handled = @ + 1]
        /\ UNCHANGED notDialog

\* ------------------------------------------------------------------------
\* Handlers followed as functions: only the last call is kept
\* ------------------------------------------------------------------------

\* an optional argument: left out, or given with a value
NoString == [given |-> FALSE, value |-> ""]

NoBoolean == [given |-> FALSE, value |-> FALSE]

NoNumber == [given |-> FALSE, value |-> 0]

Arg(v) == [given |-> TRUE, value |-> v]

NoShot ==
    [args |-> [uid |-> NoString, fullPage |-> NoBoolean, format |-> NoString,
               quality |-> NoNumber, filePath |-> NoString],
     result |-> [isError |-> FALSE, why |-> "none", calls |-> <<>>]]

\* a numeric argument that was left out
Absent == 0 - 1

NoFilter == [given |-> FALSE, value |-> {}]

NoHeader == [kind |-> "none", from |-> 0, to |-> 0, total |-> 0]

NoListInput == [tool |-> "none", records |-> <<>>]

NoListResponse ==
    [tool |-> "none", filter |-> NoFilter, pageSize |-> Absent, pageIdx |-> Absent,
     response |-> [isError |-> FALSE, why |-> "none", header |-> NoHeader,
                   items |-> <<>>, hint |-> Absent]]

\* ------------------------------------------------------------------------
\* fillFormElement
\* ------------------------------------------------------------------------

\* what getElementByUid(uid) hands fillFormElement: nothing, or a node with a
\* role and, perhaps, children
NoChildren == <<"undefined">>

ChildLists == {NoChildren, <<>>, <<"option">>, <<"generic">>, <<"generic", "option">>}

FormElements ==
    {[found |-> FALSE, role |-> "none", children |-> NoChildren]}
        \cup [found : {TRUE}, role : {"textbox", "combobox"}, children : ChildLists]

\* how browserContext.selectOption(uid, value) settles.  A rejection carries
\* what was thrown: an Error or another value, and whether its message
\* holds 'Could not find option'.  The context rejects with such an Error
\* when no option matches, with an Error of another message when the
\* protocol fails, and code below it may throw a value that is no Error.
SelectOk == [ok |-> TRUE, cause |-> "none", isErrorObject |-> FALSE, mentionsOption |-> FALSE]

SelectOutcomes ==
    {SelectOk,
     [ok |-> FALSE, cause |-> "noMatch", isErrorObject |-> TRUE, mentionsOption |-> TRUE],
     [ok |-> FALSE, cause |-> "protocol", isErrorObject |-> TRUE, mentionsOption |-> FALSE],
     [ok |-> FALSE, cause |-> "value", isErrorObject |-> FALSE, mentionsOption |-> TRUE],
     [ok |-> FALSE, cause |-> "value", isErrorObject |-> FALSE, mentionsOption |-> FALSE]}

\* element.children?.some(child => child.role === 'option')
hasOptions(element) ==
    /\ element.children # NoChildren
    /\ \E i \in DOMAIN element.children : element.children[i] = "option"

\* the catch of fillFormElement throws e again:
\* !(e instanceof Error) || !e.message.includes('Could not find option')
Rethrown_Always(e) == TRUE
Rethrown_Never(e) == FALSE
Rethrown(e) == ~e.isErrorObject \/ ~e.mentionsOption

\* await browserContext.fillElement(uid, value), the last call of a run
FillAfter(calls, fillOk) ==
    [calls |-> Append(calls, "fillElement"),
     outcome |-> IF fillOk THEN "resolved" ELSE "rejected",
     thrown |-> IF fillOk THEN "none" ELSE "fillElement"]

\* fillFormElement(uid, value) for the element the uid resolves to and the
\* way the two context calls settle: the calls made, in order, and the outcome
fillFormElement(element, select, fillOk) ==
    IF element.found /\ element.role = "combobox"
    THEN IF hasOptions(element)
         THEN IF select.ok
              THEN [calls |-> <<"selectOption">>, outcome |-> "resolved", thrown |-> "none"]
              ELSE IF Rethrown(select)
              THEN [calls |-> <<"selectOption">>, outcome |-> "rejected", thrown |-> "selectOption"]
              ELSE FillAfter(<<"selectOption">>, fillOk)
         ELSE FillAfter(<<>>, fillOk)
    ELSE FillAfter(<<>>, fillOk)

NoForm ==
    [element |-> [found |-> FALSE, role |-> "none", children |-> NoChildren],
     select |-> SelectOk, fillOk |-> TRUE,
     run |-> [calls |-> <<>>, outcome |-> "none", thrown |-> "none"]]

FillFormElementRuns ==
    \E element \in FormElements : \E select \in SelectOutcomes : \E fillOk \in BOOLEAN :
        /\ form' = [element |-> element, select |-> select, fillOk |-> fillOk,
                    run |-> fillFormElement(element, select, fillOk)]
        /\ shot' = NoShot
        /\ lres' = NoListResponse
        /\ UNCHANGED lbuf
        /\ UNCHANGED notCalls

\* ------------------------------------------------------------------------
\* browser_screenshot
\* ------------------------------------------------------------------------

\* args.uid: left out, the empty string, or the uid of a node
ShotUids == {NoString, Arg(""), Arg("1_1")}

ShotFullPages == {NoBoolean, Arg(FALSE), Arg(TRUE)}

ShotFormats == {NoString, Arg("png"), Arg("jpeg")}

\* a string argument in a condition: undefined and '' are falsy
TruthyString(a) == a.given /\ a.value # ""

\* a boolean argument in a condition: undefined and false are falsy
TruthyBoolean(a) == a.given /\ a.value

\* if (args.uid && args.fullPage)
UidWithFullPage_Never(args) == FALSE
UidWithFullPage(args) == TruthyString(args.uid) /\ TruthyBoolean(args.fullPage)

\* browser_screenshot: the result and the calls made for the arguments, and
\* for how captureScreenshot and writeFileSync go
Screenshot(active, args, captureOk, writeOk) ==
    IF active = NoView THEN [isError |-> TRUE, why |-> "no active page", calls |-> <<>>]
    ELSE IF UidWithFullPage(args)
    THEN [isError |-> TRUE, why |-> "not allowed", calls |-> <<>>]
    ELSE IF ~captureOk
    THEN [isError |-> TRUE, why |-> "failed", calls |-> <<"captureScreenshot">>]
    ELSE IF TruthyString(args.filePath)
    THEN IF writeOk
         THEN [isError |-> FALSE, why |-> "saved",
               calls |-> <<"captureScreenshot", "writeFileSync">>]
         ELSE [isError |-> TRUE, why |-> "failed",
               calls |-> <<"captureScreenshot", "writeFileSync">>]
    ELSE [isError |-> FALSE, why |-> "image", calls |-> <<"captureScreenshot">>]

browser_screenshot ==
    \E uid \in ShotUids : \E fullPage \in ShotFullPages : \E format \in ShotFormats :
    \E quality \in {NoNumber, Arg(80)} : \E filePath \in {NoString, Arg("shot.png")} :
    \E captureOk \in BOOLEAN : \E writeOk \in BOOLEAN :
        LET args == [uid |-> uid, fullPage |-> fullPage, format |-> format,
                     quality |-> quality, filePath |-> filePath]
        IN /\ shot' = [args |-> args,
                       result |-> Screenshot(activeViewId, args, captureOk, writeOk)]
           /\ form' = NoForm
           /\ lres' = NoListResponse
           /\ UNCHANGED lbuf
           /\ UNCHANGED notCalls

\* ------------------------------------------------------------------------
\* The list tools: filter and pagination
\* ------------------------------------------------------------------------

ListTools == {"browser_network_requests", "browser_console"}

\* the resourceType of a request, and the type of a console message
RecordTypes(tool) ==
    IF tool = "browser_network_requests" THEN {"XHR", "script"} ELSE {"log", "error"}

\* the names a caller may put in resourceTypes, and in types
FilterNames(tool) ==
    IF tool = "browser_network_requests" THEN {"xhr", "Script"} ELSE {"log", "ERROR"}

\* String.prototype.toLowerCase on the names above
toLowerCase(t) ==
    CASE t = "XHR" -> "xhr"
      [] t = "Script" -> "script"
      [] t = "ERROR" -> "error"
      [] OTHER -> t

\* the lists the context may hand a tool: records in buffer order, the id of
\* a record being its place
ListsOf(tool) ==
    UNION {{[i \in 1..n |-> [id |-> i, type |-> f[i]]] : f \in [1..n -> RecordTypes(tool)]}
              : n \in 0..MaxListLen}

Filters(tool) == {NoFilter} \cup {Arg(names) : names \in SUBSET FilterNames(tool)}

\* the filter of the two handlers: args.resourceTypes is compared in lower
\* case on both sides, args.types as it is; an empty array filters nothing
Kept(tool, r, filter) ==
    IF ~filter.given \/ filter.value = {} THEN TRUE
    ELSE IF tool = "browser_network_requests"
    THEN toLowerCase(r.type) \in {toLowerCase(t) : t \in filter.value}
    ELSE r.type \in filter.value

FilterList(tool, records, filter) == SelectSeq(records, LAMBDA r : Kept(tool, r, filter))

\* Array.prototype.slice(start, end) for 0 <= start and 0 <= end <= length
slice(s, start, end) == IF start >= end THEN <<>> ELSE SubSeq(s, start + 1, end)

\* args.pageIdx || 0
PageIdxOrZero(pageIdx) == IF pageIdx = Absent THEN 0 ELSE pageIdx

\* the page of the filtered list: all of it when pageSize is left out
PageOf_NextPage(filtered, pageSize, pageIdx) ==
    IF pageSize # Absent
    THEN slice(filtered, (pageIdx + 1) * pageSize,
               Min((pageIdx + 1) * pageSize + pageSize, Len(filtered)))
    ELSE filtered
PageOf(filtered, pageSize, pageIdx) ==
    IF pageSize # Absent
    THEN slice(filtered, pageIdx * pageSize, Min(pageIdx * pageSize + pageSize, Len(filtered)))
    ELSE filtered

\* the first line of a list: the range and the total when pageSize is
\* given, the total alone when it is not
Header(total, pageSize, pageIdx) ==
    IF pageSize # Absent
    THEN [kind |-> "range", from |-> pageIdx * pageSize + 1,
          to |-> Min(pageIdx * pageSize + pageSize, total), total |-> total]
    ELSE [kind |-> "total", from |-> 0, to |-> 0, total |-> total]

\* 'Use pageIdx=k+1 to see more': the page index named, Absent without the line
NextPageHint_Always(total, pageSize, pageIdx, shown) == pageIdx + 1
NextPageHint(total, pageSize, pageIdx, shown) ==
    IF pageSize # Absent /\ pageIdx * pageSize + shown < total
    THEN pageIdx + 1
    ELSE Absent

\* the handler of browser_network_requests / browser_console from the list
\* the context returned to the text it answers with
ListResponse(tool, records, filter, pageSize, pageIdxArg) ==
    LET filtered == FilterList(tool, records, filter)
        total == Len(filtered)
        pageIdx == PageIdxOrZero(pageIdxArg)
        page == PageOf(filtered, pageSize, pageIdx)
    IN IF Len(page) = 0
       THEN [isError |-> FALSE, why |-> "none captured", header |-> NoHeader,
             items |-> <<>>, hint |-> Absent]
       ELSE [isError |-> FALSE, why |-> "list", header |-> Header(total, pageSize, pageIdx),
             items |-> page, hint |-> NextPageHint(total, pageSize, pageIdx, Len(page))]

\* a list tool is called for the list of lbuf
ListCalled(tool) ==
    \E filter \in Filters(tool) :
    \E pageSize \in {Absent} \cup 1..MaxPageSize :
    \E pageIdx \in {Absent} \cup 0..MaxPageIdx :
        /\ lbuf.tool = tool
        /\ lres' = [tool |-> tool, filter |-> filter, pageSize |-> pageSize,
                    pageIdx |-> pageIdx,
                    response |-> ListResponse(tool, lbuf.records, filter, pageSize, pageIdx)]
        /\ form' = NoForm
        /\ shot' = NoShot
        /\ UNCHANGED lbuf
        /\ UNCHANGED notCalls

NetworkRequestsListed == ListCalled("browser_network_requests")

ConsoleListed == ListCalled("browser_console")

\* ------------------------------------------------------------------------
\* Point lookup of a request and of a console message
\* ------------------------------------------------------------------------

Digits == <<"0", "1", "2", "3", "4", "5", "6", "7", "8", "9">>

\* the decimal text of a natural number, a character at a time
RECURSIVE DecimalText(_)
DecimalText(n) ==
    IF n < 10 THEN <<Digits[n + 1]>> ELSE DecimalText(n \div 10) \o <<Digits[(n % 10) + 1]>>

\* String(x) of a number given in halves: 3 for 1.5, which reads "1.5"
String(h) ==
    IF h < 0 THEN <<"-">> \o (IF (0 - h) % 2 = 0 THEN DecimalText((0 - h) \div 2)
                             ELSE DecimalText((0 - h) \div 2) \o <<".", "5">>)
    ELSE IF h % 2 = 0 THEN DecimalText(h \div 2)
    ELSE DecimalText(h \div 2) \o <<".", "5">>

\* the id of a record as the context keeps it: the text of its number
IdText(r) == DecimalText(r.id)

\* reqid / msgid: z.number(), in halves: 0, 1, 1.5 and 2
IdHalves == {0, 2, 3, 4}

NotFound == [kind |-> "none", id |-> 0, nav |-> 0]

\* the record of the buffer with the id, nothing (NotFound) without one
Lookup(buf, id) ==
    LET hits == {i \in DOMAIN Flatten(buf) : IdText(Flatten(buf)[i]) = id}
    IN IF hits = {} THEN NotFound ELSE Flatten(buf)[CHOOSE i \in hits : TRUE]

\* BrowserContext.getNetworkRequest(id)
getNetworkRequest(id) == Lookup(netBuf, id)

\* BrowserContext.getConsoleMessage(id)
getConsoleMessage(id) == Lookup(conBuf, id)

NoLookup ==
    [tool |-> "none", asked |-> Absent, inBuffer |-> FALSE, everRecorded |-> FALSE,
     isError |-> FALSE, why |-> "none", record |-> NotFound]

\* what a lookup tool answers for what the context gave it: if (!request)
\* return textResult(`Request not found: ..`, true)
LookupResult_MissIsEmpty(record) ==
    [isError |-> FALSE, why |-> "details", record |-> record]
LookupResult(record) ==
    IF record = NotFound
    THEN [isError |-> TRUE, why |-> "not found", record |-> NotFound]
    ELSE [isError |-> FALSE, why |-> "details", record |-> record]

LookupCalled(tool, kind, buf, h, result) ==
    [tool |-> tool, asked |-> h,
     inBuffer |-> \E i \in DOMAIN Flatten(buf) : IdText(Flatten(buf)[i]) = String(h),
     everRecorded |-> \E r \in recorded : r.kind = kind /\ IdText(r) = String(h),
     isError |-> result.isError, why |-> result.why, record |-> result.record]

\* browser_network_request with a reqid
browser_network_request ==
    \E h \in IdHalves :
        /\ lookup' = LookupCalled("browser_network_request", "net", netBuf, h,
                                  LookupResult(getNetworkRequest(String(h))))
        /\ UNCHANGED bvars
        /\ UNCHANGED notLookup

\* browser_console_message
browser_console_message ==
    \E h \in IdHalves :
        /\ lookup' = LookupCalled("browser_console_message", "con", conBuf, h,
                                  LookupResult(getConsoleMessage(String(h))))
        /\ UNCHANGED bvars
        /\ UNCHANGED notLookup

\* ------------------------------------------------------------------------
\* browser_navigate: the commands it sends to the view manager
\* ------------------------------------------------------------------------

NavTypes == {"url", "back", "forward", "reload"}

NavTypeArgs == {NoString} \cup {Arg(t) : t \in NavTypes}

NavUrls == {NoString, Arg(""), Arg("https://a")}

NavIgnoreCaches == {NoBoolean, Arg(FALSE), Arg(TRUE)}

NavTimeouts == {NoNumber, Arg(0), Arg(5000)}

NavArgs ==
    [type : NavTypeArgs, url : NavUrls, ignoreCache : NavIgnoreCaches,
     timeout : NavTimeouts]

\* what the view manager or the context may do to a call: nothing, fail the
\* command, fail the wait
NavFailures == {"none", "command", "wait"}

\* a command as the view manager or the context receives it; a parameter the
\* caller does not pass arrives left out
Command(op, url, ignoreCache, timeout) ==
    [op |-> op, url |-> url, ignoreCache |-> ignoreCache, timeout |-> timeout]

\* args.type || (args.url ? 'url' : undefined)
navType(args) ==
    IF TruthyString(args.type) THEN args.type.value
    ELSE IF TruthyString(args.url) THEN "url"
    ELSE "undefined"

\* (args.timeout && args.timeout > 0) ? args.timeout : NAV_TIMEOUT
navTimeout(args) ==
    IF args.timeout.given /\ args.timeout.value > 0 THEN args.timeout.value
    ELSE NAV_TIMEOUT

UrlMissing_Never(args) == FALSE

\* !args.url
UrlMissing(args) == ~TruthyString(args.url)

NavResult(isError, why, calls) == [isError |-> isError, why |-> why, calls |-> calls]

\* the command of a history navigation and the wait that follows it
NavAndWait(command, args, fails, done) ==
    IF fails = "command" THEN NavResult(TRUE, "unable", <<command>>)
    ELSE LET calls ==
                 <<command, Command("waitForNavigation", NoString, NoBoolean,
                                    Arg(navTimeout(args)))>>
         IN  IF fails = "wait" THEN NavResult(TRUE, "unable", calls)
             ELSE NavResult(FALSE, done, calls)

\* the handler of browser_navigate
Navigate(active, args, fails) ==
    IF navType(args) = "undefined" /\ ~TruthyString(args.url)
    THEN NavResult(TRUE, "urlOrType", <<>>)
    ELSE IF active = NoView
    THEN NavResult(TRUE, "noActivePage", <<>>)
    ELSE CASE navType(args) = "back" ->
                NavAndWait(Command("goBack", NoString, NoBoolean, NoNumber),
                           args, fails, "back")
           [] navType(args) = "forward" ->
                NavAndWait(Command("goForward", NoString, NoBoolean, NoNumber),
                           args, fails, "forward")
           [] navType(args) = "reload" ->
                NavAndWait(Command("reload", NoString, NoBoolean, NoNumber),
                           args, fails, "reloaded")
           [] OTHER ->
                IF UrlMissing(args)
                THEN NavResult(TRUE, "urlRequired", <<>>)
                ELSE NavAndWait(Command("navigate", args.url, NoBoolean, NoNumber),
                                args, fails, "navigated")

NoNavArgs ==
    [type |-> NoString, url |-> NoString, ignoreCache |-> NoBoolean,
     timeout |-> NoNumber]

NoNav ==
    [called |-> FALSE, active |-> NoView, args |-> NoNavArgs,
     result |-> NavResult(FALSE, "none", <<>>)]

NoEmuArgs ==
    [networkConditions |-> NoString, cpuThrottlingRate |-> NoNumber,
     geolocation |-> [given |-> FALSE, isNull |-> FALSE, latitude |-> 0, longitude |-> 0]]

\* what browser_fill_form returns: the elements it tried and the errors it lists
FormResult(isError, why, attempts, errors) ==
    [isError |-> isError, why |-> why, attempts |-> attempts, errors |-> errors]

NoFillForm ==
    [called |-> FALSE, active |-> NoView, elements |-> <<>>, outcomes |-> <<>>,
     result |-> FormResult(FALSE, "none", <<>>, <<>>)]

\* a line of a result text: its words and the numbers written into it
Line(label, text, numbers) == [label |-> label, text |-> text, numbers |-> numbers]

NoEmu ==
    [called |-> FALSE, active |-> NoView, args |-> NoEmuArgs,
     result |-> NavResult(FALSE, "none", <<>>), content |-> <<>>,
     twin |-> [calls |-> <<>>, isError |-> FALSE, content |-> <<>>]]

\* a browser_navigate call returns; the handler changes neither the view list
\* nor the active view
browser_navigate ==
    /\ \E args \in NavArgs : \E fails \in NavFailures :
          nav' = [called |-> TRUE, active |-> activeViewId, args |-> args,
                  result |-> Navigate(activeViewId, args, fails)]
    /\ emu' = NoEmu
    /\ ff' = NoFillForm
    /\ UNCHANGED notCommands

\* ------------------------------------------------------------------------
\* browser_emulate: the commands it sends over the debugging protocol.
\* Throughputs are kept in tenths of a byte per second: 'Fast 3G' downloads
\* 1.6 * 1024 * 1024 / 8 = 209715.2 bytes per second.
\* ------------------------------------------------------------------------

PresetNames == {"Slow 3G", "Fast 3G", "Regular 4G", "DSL", "WiFi"}

NetworkConditionNames == {"No emulation", "Offline"} \cup PresetNames

Preset(download, upload, latency) ==
    [download |-> download, upload |-> upload, latency |-> latency]

NETWORK_CONDITIONS ==
    [name \in PresetNames |->
        CASE name = "Slow 3G" ->
                Preset((10 * 500 * 1024) \div 8, (10 * 500 * 1024) \div 8, 400)
          [] name = "Fast 3G" ->
                Preset((16 * 1024 * 1024) \div 8, (10 * 750 * 1024) \div 8, 150)
          [] name = "Regular 4G" ->
                Preset((10 * 4 * 1024 * 1024) \div 8, (10 * 3 * 1024 * 1024) \div 8, 20)
          [] name = "DSL" ->
                Preset((10 * 2 * 1024 * 1024) \div 8, (10 * 1 * 1024 * 1024) \div 8, 5)
          [] name = "WiFi" ->
                Preset((10 * 30 * 1024 * 1024) \div 8, (10 * 15 * 1024 * 1024) \div 8, 2)]

NetworkParams(offline, latency, download, upload) ==
    [offline |-> offline, latency |-> latency,
     downloadThroughput |-> download, uploadThroughput |-> upload]

CDP(method, params) == [method |-> method, params |-> params]

NoParams == [none |-> TRUE]

NetworkCommands_Unthrottled(value) ==
    <<CDP("Network.emulateNetworkConditions", NetworkParams(FALSE, 0, 0 - 10, 0 - 10))>>

\* the network branch of the handler for a value that was given
NetworkCommands(value) ==
    IF value = "No emulation"
    THEN <<CDP("Network.emulateNetworkConditions",
               NetworkParams(FALSE, 0, 0 - 10, 0 - 10))>>
    ELSE IF value = "Offline"
    THEN <<CDP("Network.emulateNetworkConditions", NetworkParams(TRUE, 0, 0, 0))>>
    ELSE IF value \in DOMAIN NETWORK_CONDITIONS
    THEN LET cond == NETWORK_CONDITIONS[value]
         IN  <<CDP("Network.emulateNetworkConditions",
                   NetworkParams(FALSE, cond.latency, cond.download, cond.upload))>>
    ELSE <<>>

OmittedGeolocation == [given |-> FALSE, isNull |-> FALSE, latitude |-> 0, longitude |-> 0]

NullGeolocation == [given |-> TRUE, isNull |-> TRUE, latitude |-> 0, longitude |-> 0]

Geolocations ==
    {OmittedGeolocation, NullGeolocation,
     [given |-> TRUE, isNull |-> FALSE, latitude |-> 48, longitude |-> 2]}

GeolocationCommands(geolocation) ==
    IF geolocation.isNull
    THEN <<CDP("Emulation.clearGeolocationOverride", NoParams)>>
    ELSE <<CDP("Emulation.setGeolocationOverride",
               [latitude |-> geolocation.latitude,
                longitude |-> geolocation.longitude, accuracy |-> 100])>>

Given_Always(arg) == TRUE

\* arg !== undefined
Given(arg) == arg.given

\* the commands of a call in the order the handler sends them
EmulateCommands(args) ==
    (IF Given(args.networkConditions)
     THEN NetworkCommands(args.networkConditions.value) ELSE <<>>)
    \o (IF Given(args.cpuThrottlingRate)
        THEN <<CDP("Emulation.setCPUThrottlingRate",
                   [rate |-> args.cpuThrottlingRate.value])>>
        ELSE <<>>)
    \o (IF Given(args.geolocation)
        THEN GeolocationCommands(args.geolocation) ELSE <<>>)

EmuArgs ==
    [networkConditions : {NoString} \cup {Arg(n) : n \in NetworkConditionNames},
     cpuThrottlingRate : {NoNumber, Arg(1), Arg(4)},
     geolocation : Geolocations]

\* the handler of browser_emulate; failAt is the command the protocol
\* rejects, 0 when it rejects none
Emulate(active, args, failAt) ==
    IF active = NoView
    THEN NavResult(TRUE, "noActivePage", <<>>)
    ELSE LET commands == EmulateCommands(args)
         IN  IF failAt \in 1 .. Len(commands)
             THEN NavResult(TRUE, "failed", SubSeq(commands, 1, failAt))
             ELSE IF Len(commands) = 0
             THEN NavResult(FALSE, "unchanged", <<>>)
             ELSE NavResult(FALSE, "changed", commands)

\* the lines browser_emulate pushes onto results, one for each command
EmulateLines(args) ==
    (IF Given(args.networkConditions)
        /\ NetworkCommands(args.networkConditions.value) # <<>>
     THEN <<Line("Network", args.networkConditions.value, <<>>)>> ELSE <<>>)
    \o (IF Given(args.cpuThrottlingRate)
        THEN <<Line("CPU throttling", "x", <<args.cpuThrottlingRate.value>>)>>
        ELSE <<>>)
    \o (IF Given(args.geolocation)
        THEN IF args.geolocation.isNull
             THEN <<Line("Geolocation", "cleared", <<>>)>>
             ELSE <<Line("Geolocation", "",
                         <<args.geolocation.latitude, args.geolocation.longitude>>)>>
        ELSE <<>>)

\* the text of the result of browser_emulate
EmulateText(active, args, failAt) ==
    IF active = NoView
    THEN <<Line("No active browser page.", "", <<>>)>>
    ELSE LET commands == EmulateCommands(args)
         IN  IF failAt \in 1 .. Len(commands)
             THEN <<Line("Emulation failed", commands[failAt].method, <<>>)>>
             ELSE IF Len(EmulateLines(args)) = 0
             THEN <<Line("No emulation settings changed.", "", <<>>)>>
             ELSE EmulateLines(args)

\* tools/emulation.ts: the table of presets of emulateTool
EmulationToolConditions ==
    [name \in {"Slow 3G", "Fast 3G", "Regular 4G", "DSL", "WiFi"} |->
        CASE name = "Slow 3G" ->
                [download |-> (10 * 500 * 1024) \div 8,
                 upload |-> (10 * 500 * 1024) \div 8, latency |-> 400]
          [] name = "Fast 3G" ->
                [download |-> (16 * 1024 * 1024) \div 8,
                 upload |-> (10 * 750 * 1024) \div 8, latency |-> 150]
          [] name = "Regular 4G" ->
                [download |-> (10 * 4 * 1024 * 1024) \div 8,
                 upload |-> (10 * 3 * 1024 * 1024) \div 8, latency |-> 20]
          [] name = "DSL" ->
                [download |-> (10 * 2 * 1024 * 1024) \div 8,
                 upload |-> (10 * 1 * 1024 * 1024) \div 8, latency |-> 5]
          [] name = "WiFi" ->
                [download |-> (10 * 30 * 1024 * 1024) \div 8,
                 upload |-> (10 * 15 * 1024 * 1024) \div 8, latency |-> 2]]

\* one step of the handler of emulateTool: the command it sends and the line
\* it pushes once the command has succeeded
ToolStep(method, params, line) == [command |-> CDP(method, params), line |-> line]

emulateToolNetwork(networkConditions) ==
    IF networkConditions = "No emulation"
    THEN <<ToolStep("Network.emulateNetworkConditions",
                    [offline |-> FALSE, latency |-> 0,
                     downloadThroughput |-> 0 - 10, uploadThroughput |-> 0 - 10],
                    Line("Network", "No emulation", <<>>))>>
    ELSE IF networkConditions = "Offline"
    THEN <<ToolStep("Network.emulateNetworkConditions",
                    [offline |-> TRUE, latency |-> 0,
                     downloadThroughput |-> 0, uploadThroughput |-> 0],
                    Line("Network", "Offline", <<>>))>>
    ELSE IF networkConditions \in DOMAIN EmulationToolConditions
    THEN LET condition == EmulationToolConditions[networkConditions]
         IN  <<ToolStep("Network.emulateNetworkConditions",
                        [offline |-> FALSE, latency |-> condition.latency,
                         downloadThroughput |-> condition.download,
                         uploadThroughput |-> condition.upload],
                        Line("Network", networkConditions, <<>>))>>
    ELSE <<>>

emulateToolCpu(params) ==
    IF params.cpuThrottlingRate.given
    THEN <<ToolStep("Emulation.setCPUThrottlingRate",
                    [rate |-> params.cpuThrottlingRate.value],
                    Line("CPU throttling", "x", <<params.cpuThrottlingRate.value>>))>>
    ELSE <<>>

emulateToolGeolocation(params) ==
    IF ~params.geolocation.given THEN <<>>
    ELSE IF params.geolocation.isNull
    THEN <<ToolStep("Emulation.clearGeolocationOverride", NoParams,
                    Line("Geolocation", "cleared", <<>>))>>
    ELSE <<ToolStep("Emulation.setGeolocationOverride",
                    [latitude |-> params.geolocation.latitude,
                     longitude |-> params.geolocation.longitude, accuracy |-> 100],
                    Line("Geolocation", "",
                         <<params.geolocation.latitude, params.geolocation.longitude>>))>>

emulateToolSteps_GeolocationFirst(params) ==
    (IF params.networkConditions.given
     THEN emulateToolNetwork(params.networkConditions.value) ELSE <<>>)
    \o emulateToolGeolocation(params)
    \o emulateToolCpu(params)

\* the steps of the handler of emulateTool, in its order
emulateToolSteps(params) ==
    (IF params.networkConditions.given
     THEN emulateToolNetwork(params.networkConditions.value) ELSE <<>>)
    \o emulateToolCpu(params)
    \o emulateToolGeolocation(params)

\* the handler of emulateTool: the commands it sends, its content and isError
emulateTool(active, params, failAt) ==
    IF active = NoView
    THEN [calls |-> <<>>, isError |-> TRUE,
          content |-> <<Line("No active browser page.", "", <<>>)>>]
    ELSE LET steps == emulateToolSteps(params)
         IN  IF failAt \in 1 .. Len(steps)
             THEN [calls |-> [k \in 1 .. failAt |-> steps[k].command], isError |-> TRUE,
                   content |-> <<Line("Emulation failed", steps[failAt].command.method,
                                      <<>>)>>]
             ELSE [calls |-> [k \in 1 .. Len(steps) |-> steps[k].command],
                   isError |-> FALSE,
                   content |-> IF Len(steps) = 0
                               THEN <<Line("No emulation settings changed.", "", <<>>)>>
                               ELSE [k \in 1 .. Len(steps) |-> steps[k].line]]

\* a browser_emulate call returns; twin is what emulateTool returns for the
\* same arguments, active page and failing command
browser_emulate ==
    /\ \E args \in EmuArgs : \E failAt \in 0 .. 3 :
          emu' = [called |-> TRUE, active |-> activeViewId, args |-> args,
                  result |-> Emulate(activeViewId, args, failAt),
                  content |-> EmulateText(activeViewId, args, failAt),
                  twin |-> emulateTool(activeViewId, args, failAt)]
    /\ nav' = NoNav
    /\ ff' = NoFillForm
    /\ UNCHANGED notCommands

\* ------------------------------------------------------------------------
\* browser_fill_form
\* ------------------------------------------------------------------------

MaxFormElements == 2

FormUids == {"u1", "u2"}

\* args.elements, by the uid of each element
ElementLists == UNION {[1 .. n -> FormUids] : n \in 0 .. MaxFormElements}

\* how withTimeout(fillFormElement(uid, value), TOOL_TIMEOUT, ...) settles
FillOutcomes == {"filled", "rejected", "timedOut"}

\* the elements the loop would reach if an error left the loop
Attempted_UntilFailure(elements, outcomes) ==
    LET failed == {i \in 1 .. Len(elements) : outcomes[i] # "filled"}
    IN  IF failed = {} THEN 1 .. Len(elements)
        ELSE 1 .. (CHOOSE i \in failed : \A j \in failed : i <= j)

\* the elements the loop reaches: the try / catch lies inside the loop
Attempted(elements, outcomes) == 1 .. Len(elements)

\* the lines pushed onto errors, in order
RECURSIVE FormErrors(_, _, _, _)
FormErrors(elements, outcomes, reached, i) ==
    IF i > Len(elements) \/ i \notin reached THEN <<>>
    ELSE (IF outcomes[i] = "filled" THEN <<>>
          ELSE <<[uid |-> elements[i], message |-> outcomes[i]]>>)
         \o FormErrors(elements, outcomes, reached, i + 1)

\* the handler of browser_fill_form
FillForm(active, elements, outcomes) ==
    IF active = NoView
    THEN FormResult(TRUE, "noActivePage", <<>>, <<>>)
    ELSE LET reached == Attempted(elements, outcomes)
             attempts == [i \in reached |-> elements[i]]
             errors == FormErrors(elements, outcomes, reached, 1)
         IN  IF Len(errors) > 0
             THEN FormResult(Len(errors) = Len(elements), "partially", attempts, errors)
             ELSE FormResult(FALSE, "success", attempts, errors)

\* a browser_fill_form call returns
browser_fill_form ==
    /\ \E elements \in ElementLists :
          \E outcomes \in [1 .. Len(elements) -> FillOutcomes] :
             ff' = [called |-> TRUE, active |-> activeViewId, elements |-> elements,
                    outcomes |-> outcomes,
                    result |-> FillForm(activeViewId, elements, outcomes)]
    /\ nav' = NoNav
    /\ emu' = NoEmu
    /\ UNCHANGED notCommands

\* ------------------------------------------------------------------------
\* runInterceptors: one request through a chain of interceptors
\* ------------------------------------------------------------------------

NoRequest == "none"

\* the request of the caller and a request an interceptor may put in its place
OriginalRequest == "request"

ModifiedRequest == "modified"

\* InterceptorResult: { handled: false } | { handled: true; modified? } |
\* { handled: true; responded: true }
InterceptorResult(handled, responded, modified) ==
    [handled |-> handled, responded |-> responded, modified |-> modified]

InterceptorResults ==
    {InterceptorResult(FALSE, FALSE, NoRequest),
     InterceptorResult(TRUE, FALSE, NoRequest),
     InterceptorResult(TRUE, FALSE, ModifiedRequest),
     InterceptorResult(TRUE, TRUE, NoRequest)}

NoInterceptorResult == InterceptorResult(FALSE, FALSE, NoRequest)

\* one call of a method of the interceptor at position idx of the list
ChainCall(fn, idx, threw, should, result) ==
    [fn |-> fn, idx |-> idx, threw |-> threw, should |-> should, result |-> result]

ChainResult(kind, intercepted, responded, request) ==
    [kind |-> kind, intercepted |-> intercepted, responded |-> responded,
     request |-> request]

NoChainResult == ChainResult("none", FALSE, FALSE, NoRequest)

IdleChain ==
    [pc |-> "idle", n |-> 0, i |-> 0, request |-> NoRequest,
     currentRequest |-> NoRequest, log |-> <<>>, result |-> NoChainResult]

StopsChain_OnlyResponded(result) == result.handled /\ result.responded

\* the two returns inside the loop: the interceptor responded, or it handed
\* back a modified request
StopsChain(result) ==
    result.handled /\ (result.responded \/ result.modified # NoRequest)

\* what runInterceptors returns from inside the loop
ReturnOf(result) ==
    IF result.responded
    THEN ChainResult("returned", TRUE, TRUE, NoRequest)
    ELSE ChainResult("returned", TRUE, FALSE, result.modified)

\* the loop moves on to the interceptor after position i; past the end of
\* the list the function returns { intercepted: false, request: currentRequest }
NextInterceptor(c, log) ==
    IF c.i + 1 > c.n
    THEN [c EXCEPT !.pc = "done", !.i = c.i + 1, !.log = log,
                   !.result = ChainResult("returned", FALSE, FALSE, c.currentRequest)]
    ELSE [c EXCEPT !.pc = "shouldIntercept", !.i = c.i + 1, !.log = log]

\* runInterceptors(request, context, interceptors) is called
RunInterceptors ==
    /\ chain.pc \in {"idle", "done"}
    /\ \E n \in 0 .. MaxInterceptors :
          chain' = NextInterceptor(
                       [IdleChain EXCEPT !.n = n, !.request = OriginalRequest,
                                         !.currentRequest = OriginalRequest],
                       <<>>)
    /\ UNCHANGED notInterceptors

\* interceptor.shouldIntercept(currentRequest, context) returns
ShouldInterceptReturns ==
    /\ chain.pc = "shouldIntercept"
    /\ \E should \in BOOLEAN :
          LET log == Append(chain.log,
                            ChainCall("shouldIntercept", chain.i, FALSE, should,
                                      NoInterceptorResult))
          IN  chain' = IF should
                       THEN [chain EXCEPT !.pc = "intercept", !.log = log]
                       ELSE NextInterceptor(chain, log)
    /\ UNCHANGED notInterceptors

\* interceptor.intercept(currentRequest, context) settles with a result
InterceptReturns ==
    /\ chain.pc = "intercept"
    /\ \E result \in InterceptorResults :
          LET log == Append(chain.log, ChainCall("intercept", chain.i, FALSE, TRUE, result))
          IN  chain' = IF StopsChain(result)
                       THEN [chain EXCEPT !.pc = "done", !.log = log,
                                          !.result = ReturnOf(result)]
                       ELSE NextInterceptor(chain, log)
    /\ UNCHANGED notInterceptors

\* shouldIntercept throws or intercept rejects: runInterceptors rejects
InterceptorThrows ==
    /\ chain.pc \in {"shouldIntercept", "intercept"}
    /\ chain' = [chain EXCEPT
                    !.pc = "done",
                    !.log = Append(chain.log,
                                   ChainCall(chain.pc, chain.i, TRUE, FALSE,
                                             NoInterceptorResult)),
                    !.result = ChainResult("rejected", FALSE, FALSE, NoRequest)]
    /\ UNCHANGED notInterceptors

\* ------------------------------------------------------------------------
\* scripts/native-modules.cjs: prepare and restore.  The model holds one
\* scope directory, node_modules/@parcel, whose entries are package
\* directories, and the backup directory node_modules/.native-modules-backup.
\* A directory is "absent", "empty", or holds the content of a package,
\* named after the package it was installed as.
\* ------------------------------------------------------------------------

Platforms == {"darwin", "win32", "linux"}

\* electron-builder Arch enum values the model draws: 1 = x64, 3 = arm64
Arches == {1, 3}

ARCH_NAMES(arch) ==
    CASE arch = 0 -> "ia32" [] arch = 1 -> "x64" [] arch = 2 -> "armv7l"
      [] arch = 3 -> "arm64" [] arch = 4 -> "universal" [] OTHER -> "other"

NoTarget == "null"

\* REGISTRY[0].resolve(platform, arch)
resolve(platform, archStr) ==
    CASE platform = "darwin" /\ archStr = "arm64" -> "watcher-darwin-arm64"
      [] platform = "darwin" /\ archStr = "x64" -> "watcher-darwin-x64"
      [] platform = "win32" /\ archStr = "x64" -> "watcher-win32-x64"
      [] platform = "linux" /\ archStr = "x64" -> "watcher-linux-x64-glibc"
      [] OTHER -> NoTarget

\* the entries the scope directory may hold, in the order readdirSync lists
\* them; "watcher" is the package without the registry prefix
PackageOrder ==
    <<"watcher", "watcher-darwin-arm64", "watcher-linux-x64-glibc", "watcher-win32-x64">>

Packages == {PackageOrder[k] : k \in 1 .. Len(PackageOrder)}

\* item.name.startsWith('watcher-')
HasPrefix(name) == name # "watcher"

IsDirectory(content) == content # "absent"

\* fs.existsSync(path.join(scopeDir, name))
Exists(pkgs, name) == name \in DOMAIN pkgs /\ IsDirectory(pkgs[name])

NoneInstalled == [p \in Packages |-> "absent"]

\* what is installed before any build: each package in full or not at all
Installs == {[p \in Packages |-> IF p \in S THEN p ELSE "absent"] : S \in SUBSET Packages}

NoJob == [op |-> "none", pc |-> "none", inner |-> FALSE, target |-> NoTarget, todo |-> <<>>]

NoRound == [state |-> "none", clean |-> FALSE, before |-> NoneInstalled, target |-> NoTarget]

NoTree ==
    [scope |-> FALSE, pkgs |-> NoneInstalled,
     backupRoot |-> FALSE, backupScope |-> FALSE, backup |-> NoneInstalled,
     job |-> NoJob, round |-> NoRound, interrupts |-> 0]

\* the non-target packages prepare moves away
ToBackUp_None(pkgs, targetName) == <<>>

ToBackUp(pkgs, targetName) ==
    SelectSeq(PackageOrder,
              LAMBDA name : IsDirectory(pkgs[name]) /\ HasPrefix(name)
                            /\ name # targetName)

\* the package directories restore finds in the backup
ToRestore(t) ==
    IF t.backupScope
    THEN SelectSeq(PackageOrder, LAMBDA name : IsDirectory(t.backup[name]))
    ELSE <<>>

\* fs.rmSync(backupRoot, { recursive: true })
CleanedUp_Kept(t) == t

CleanedUp(t) ==
    [t EXCEPT !.backupRoot = FALSE, !.backupScope = FALSE, !.backup = NoneInstalled]

\* where restore stands with the packages left to move back
RestorePc(t, todo) ==
    IF todo = <<>> THEN "cleanup"
    ELSE IF Exists(t.pkgs, Head(todo)) THEN "removeDest"
    ELSE "rename"

\* a script ends: the process returns to the build, having returned or thrown
Ended(t, state) ==
    [t EXCEPT !.job = NoJob, !.round.state = state]

\* restore returns: to prepare when prepare called it, else to the build
RestoreReturned(t) ==
    IF t.job.inner
    THEN [t EXCEPT !.job.pc = "scan", !.job.todo = <<>>]
    ELSE Ended(t, IF t.round.state = "restoring" THEN "restored" ELSE "other")

\* beforePack: prepare(projectRoot, platform, arch) is called and calls restore
PrepareCalled ==
    /\ nm.job.op = "none"
    /\ \E platform \in Platforms : \E arch \in Arches :
          nm' = [nm EXCEPT
                    !.job = [op |-> "prepare", pc |-> "restoreScan", inner |-> TRUE,
                             target |-> resolve(platform, ARCH_NAMES(arch)),
                             todo |-> <<>>],
                    !.round = [state |-> "preparing", clean |-> ~nm.backupRoot,
                               before |-> nm.pkgs,
                               target |-> resolve(platform, ARCH_NAMES(arch))]]
    /\ UNCHANGED notNative

\* afterPack: restore(projectRoot) is called
RestoreCalled ==
    /\ nm.job.op = "none"
    /\ nm' = [nm EXCEPT
                 !.job = [op |-> "restore", pc |-> "restoreScan", inner |-> FALSE,
                          target |-> NoTarget, todo |-> <<>>],
                 !.round.state = IF nm.round.state \in {"prepared", "threw"}
                                 THEN "restoring" ELSE "other"]
    /\ UNCHANGED notNative

\* restore: existsSync(backupRoot), then the two readdirSync
RestoreScans ==
    /\ nm.job.pc = "restoreScan"
    /\ nm' = IF ~nm.backupRoot
             THEN RestoreReturned(nm)
             ELSE [nm EXCEPT !.job.todo = ToRestore(nm),
                             !.job.pc = RestorePc(nm, ToRestore(nm))]
    /\ UNCHANGED notNative

\* restore: the destination exists and is removed
RestoreRemovesDest ==
    /\ nm.job.pc = "removeDest"
    /\ nm' = [nm EXCEPT !.pkgs[Head(nm.job.todo)] = "absent", !.job.pc = "rename"]
    /\ UNCHANGED notNative

\* restore: renameSync(src, dest) moves the package back; it throws when the
\* scope directory it moves into is missing
RestoreRenames ==
    /\ nm.job.pc = "rename"
    /\ LET name == Head(nm.job.todo)
           moved == [nm EXCEPT !.pkgs[name] = nm.backup[name],
                               !.backup[name] = "absent"]
       IN  nm' = IF ~nm.scope
                 THEN Ended(nm, "threw")
                 ELSE [moved EXCEPT !.job.todo = Tail(nm.job.todo),
                                    !.job.pc = RestorePc(moved, Tail(nm.job.todo))]
    /\ UNCHANGED notNative

\* restore: the backup directory is removed and restore returns
RestoreCleansUp ==
    /\ nm.job.pc = "cleanup"
    /\ nm' = RestoreReturned(CleanedUp(nm))
    /\ UNCHANGED notNative

\* prepare after its restore: resolve the target, look for the scope
\* directory and the target package, list the scope directory
PrepareScans ==
    /\ nm.job.pc = "scan"
    /\ nm' = IF nm.job.target = NoTarget THEN Ended(nm, "threw")
             ELSE IF ~nm.scope THEN Ended(nm, "prepared")
             ELSE IF ~Exists(nm.pkgs, nm.job.target) THEN Ended(nm, "threw")
             ELSE LET todo == ToBackUp(nm.pkgs, nm.job.target)
                  IN  IF todo = <<>> THEN Ended(nm, "prepared")
                      ELSE [nm EXCEPT !.job.todo = todo, !.job.pc = "mkdirBackup"]
    /\ UNCHANGED notNative

\* prepare: mkdirSync(backupScopeDir, { recursive: true })
PrepareMakesBackupDir ==
    /\ nm.job.pc = "mkdirBackup"
    /\ nm' = [nm EXCEPT !.backupRoot = TRUE, !.backupScope = TRUE,
                        !.job.pc = "moveOut"]
    /\ UNCHANGED notNative

\* prepare: renameSync(src, dest) moves the package into the backup
PrepareRenames ==
    /\ nm.job.pc = "moveOut"
    /\ LET name == Head(nm.job.todo)
       IN  nm' = [nm EXCEPT !.backup[name] = nm.pkgs[name],
                            !.pkgs[name] = "absent",
                            !.job.pc = "mkdirSrc"]
    /\ UNCHANGED notNative

\* prepare: mkdirSync(src) leaves an empty directory; after the last
\* package prepare returns
PrepareLeavesEmptyDir ==
    /\ nm.job.pc = "mkdirSrc"
    /\ LET name == Head(nm.job.todo)
           left == [nm EXCEPT !.pkgs[name] = "empty", !.job.todo = Tail(nm.job.todo)]
       IN  nm' = IF Tail(nm.job.todo) = <<>>
                 THEN Ended(left, "prepared")
                 ELSE [left EXCEPT !.job.pc = "mkdirBackup"]
    /\ UNCHANGED notNative

\* the build is killed while a script runs: the tree stays as it is
Interrupted ==
    /\ nm.job.op # "none"
    /\ nm.interrupts < MaxInterrupts
    /\ nm' = [Ended(nm, "other") EXCEPT !.interrupts = nm.interrupts + 1]
    /\ UNCHANGED notNative

\* ------------------------------------------------------------------------
\* useLazyVisible: one component that uses the hook.  isVisible is the state
\* the last render returned; a setIsVisible call is queued until the next
\* render commits it; via tells what made isVisible true.
\* ------------------------------------------------------------------------

RootMargins == {"200px", "0px"}

\* the root argument: left out, or the ref object of a scroll container
Roots == {"undefined", "containerRef"}

LazyProps == [rootMargin : RootMargins, root : Roots, initialVisible : BOOLEAN]

NoLazy ==
    [mounted |-> FALSE, isVisible |-> FALSE, queued |-> FALSE,
     props |-> [rootMargin |-> "200px", root |-> "undefined", initialVisible |-> FALSE],
     el |-> FALSE, own |-> FALSE, connected |-> 0, via |-> "none"]

SkipsObserving_NoElement(isVisible, el) == ~el

\* the two early returns of the effect: already visible, or no element
SkipsObserving(isVisible, el) == isVisible \/ ~el

\* the cleanup of the last effect run: observer.disconnect() of the observer
\* that run created, if it created one and it is still connected
LazyCleanup(l) ==
    IF l.own THEN [l EXCEPT !.own = FALSE, !.connected = l.connected - 1] ELSE l

\* the effect body: a new observer observes the element
LazyEffect(l) ==
    IF SkipsObserving(l.isVisible, l.el) THEN l
    ELSE [l EXCEPT !.own = TRUE, !.connected = l.connected + 1]

\* the dependency list [isVisible, rootMargin, root]
LazyDeps(l) == <<l.isVisible, l.props.rootMargin, l.props.root>>

\* the component mounts: useState(initialVisible), then the effect
LazyMounts ==
    /\ ~lazy.mounted
    /\ \E props \in LazyProps : \E el \in BOOLEAN :
          lazy' = LazyEffect([NoLazy EXCEPT !.mounted = TRUE,
                                            !.isVisible = props.initialVisible,
                                            !.via = IF props.initialVisible
                                                    THEN "initialVisible" ELSE "none",
                                            !.props = props, !.el = el])
    /\ UNCHANGED notLazy

\* the component renders again, with the same or other arguments and with the
\* element attached or not: the queued state is committed, and the effect is
\* cleaned up and run again when a dependency changed or when React replays it
LazyRenders ==
    /\ lazy.mounted
    /\ \E props \in LazyProps : \E el \in BOOLEAN : \E replay \in BOOLEAN :
          LET rendered == [lazy EXCEPT !.isVisible = lazy.isVisible \/ lazy.queued,
                                       !.via = IF ~lazy.isVisible /\ lazy.queued
                                               THEN "intersection" ELSE lazy.via,
                                       !.queued = FALSE, !.props = props, !.el = el]
          IN  lazy' = IF replay \/ LazyDeps(rendered) # LazyDeps(lazy)
                      THEN LazyEffect(LazyCleanup(rendered))
                      ELSE rendered
    /\ UNCHANGED notLazy

\* a connected observer reports an entry: when it intersects, the callback
\* calls setIsVisible(true) and disconnects its observer
LazyIntersection ==
    /\ lazy.mounted
    /\ lazy.connected > 0
    /\ \E isIntersecting \in BOOLEAN : \E mine \in BOOLEAN :
          /\ mine => lazy.own
          /\ ~mine => lazy.connected > (IF lazy.own THEN 1 ELSE 0)
          /\ lazy' = IF ~isIntersecting THEN lazy
                     ELSE [lazy EXCEPT !.queued = TRUE,
                                       !.own = IF mine THEN FALSE ELSE lazy.own,
                                       !.connected = lazy.connected - 1]
    /\ UNCHANGED notLazy

\* the component unmounts: the cleanup of the last effect run
LazyUnmounts ==
    /\ lazy.mounted
    /\ lazy' = [LazyCleanup(lazy) EXCEPT !.mounted = FALSE]
    /\ UNCHANGED notLazy

\* ------------------------------------------------------------------------
\* useAsyncHighlight: one component that uses the hook.  A text is the
\* sequence of its characters.
\* ------------------------------------------------------------------------

HlCodes == {<<>>, <<"a">>, <<"<", "b">>}

\* language is optional: the template string writes a missing one out as
\* the word undefined
HlLanguages == {<<"undefined">>, <<"j", "s">>}

escapeChar(ch) ==
    CASE ch = "&" -> <<"&", "a", "m", "p", ";">>
      [] ch = "<" -> <<"&", "l", "t", ";">>
      [] ch = ">" -> <<"&", "g", "t", ";">>
      [] ch = "\"" -> <<"&", "q", "u", "o", "t", ";">>
      [] ch = "'" -> <<"&", "#", "0", "3", "9", ";">>
      [] OTHER -> <<ch>>

RECURSIVE escapeHtml(_)
escapeHtml(text) ==
    IF text = <<>> THEN <<>> ELSE escapeChar(Head(text)) \o escapeHtml(Tail(text))

\* what the hook returns: plain text, or the markup highlightCode resolved to
PlainHtml(text) == [kind |-> "plain", text |-> text, language |-> <<>>]

\* highlightCode(code, language), once its promise resolves
highlightCode(code, language) ==
    [kind |-> "highlighted", text |-> code, language |-> language]

\* `${language}:${code}`
HlKey(code, language) == language \o <<":">> \o code

\* one scheduled highlight: its closure and how far it got: "frame" waits
\* for the animation frame, "promise" for highlightCode, "dropped" had its
\* frame cancelled, "done" has resolved and set the markup, "skipped" has
\* resolved and left it alone
HlRequest(code, language) ==
    [code |-> code, language |-> language, key |-> HlKey(code, language),
     cancelled |-> FALSE, stage |-> "frame"]

NoHighlight ==
    [mounted |-> FALSE, gone |-> FALSE, code |-> <<>>, language |-> <<"undefined">>,
     html |-> PlainHtml(<<>>), currentKey |-> <<>>, raf |-> 0, cleanup |-> 0,
     requests |-> <<>>]

\* cancelAnimationFrame(rafRef.current): a frame that has not fired is dropped
CancelFrame(h) ==
    IF h.raf # 0 /\ h.requests[h.raf].stage = "frame"
    THEN [h EXCEPT !.requests[h.raf].stage = "dropped"]
    ELSE h

\* the cleanup the last effect run returned, if it returned one
HlCleanup(h) ==
    IF h.cleanup = 0 THEN h
    ELSE CancelFrame([h EXCEPT !.requests[h.cleanup].cancelled = TRUE,
                               !.cleanup = 0])

\* key === currentKeyRef.current
SameKey(key, current) == key = current

\* the effect body for the current code and language
HlEffect(h) ==
    IF h.code = <<>>
    THEN [h EXCEPT !.html = PlainHtml(<<>>)]
    ELSE IF SameKey(HlKey(h.code, h.language), h.currentKey)
    THEN h
    ELSE LET c == CancelFrame([h EXCEPT !.currentKey = HlKey(h.code, h.language),
                                        !.html = PlainHtml(escapeHtml(h.code))])
             id == Len(h.requests) + 1
         IN  [c EXCEPT !.requests = Append(c.requests,
                                           HlRequest(h.code, h.language)),
                       !.raf = id, !.cleanup = id]

\* the effect of h would schedule a highlight
HlSchedules(h) ==
    h.code # <<>> /\ ~SameKey(HlKey(h.code, h.language), h.currentKey)

\* the component mounts: useState(() => escapeHtml(code)), then the effect
HlMounts ==
    /\ ~hl.mounted /\ ~hl.gone
    /\ \E code \in HlCodes : \E language \in HlLanguages :
          hl' = HlEffect([NoHighlight EXCEPT !.mounted = TRUE, !.code = code,
                                             !.language = language,
                                             !.html = PlainHtml(escapeHtml(code))])
    /\ UNCHANGED notHighlight

\* the component renders with another code or language: the last effect is
\* cleaned up and the effect runs again
HlInputsChange ==
    /\ hl.mounted
    /\ \E code \in HlCodes : \E language \in HlLanguages :
          LET rendered == [HlCleanup(hl) EXCEPT !.code = code, !.language = language]
          IN  /\ <<code, language>> # <<hl.code, hl.language>>
              /\ HlSchedules(rendered) => Len(hl.requests) < MaxRequests
              /\ hl' = HlEffect(rendered)
    /\ UNCHANGED notHighlight

\* React cleans the effect up and runs it again with unchanged inputs
HlEffectReplayed ==
    /\ hl.mounted
    /\ HlSchedules(HlCleanup(hl)) => Len(hl.requests) < MaxRequests
    /\ hl' = HlEffect(HlCleanup(hl))
    /\ UNCHANGED notHighlight

\* an animation frame fires: highlightCode is called
HlFrameFires ==
    /\ \E id \in 1 .. Len(hl.requests) :
          /\ hl.requests[id].stage = "frame"
          /\ hl' = [hl EXCEPT !.requests[id].stage = "promise"]
    /\ UNCHANGED notHighlight

Applies_KeyOnly(r, currentKey) == currentKey = r.key

\* if (!cancelled && currentKeyRef.current === key)
Applies(r, currentKey) == ~r.cancelled /\ currentKey = r.key

\* the promise of highlightCode resolves: the markup is applied when the
\* request is not cancelled and is still the current one
HlResolves ==
    /\ \E id \in 1 .. Len(hl.requests) :
          LET r == hl.requests[id]
          IN  /\ r.stage = "promise"
              /\ hl' = [hl EXCEPT
                           !.requests[id].stage =
                               IF Applies(r, hl.currentKey) THEN "done" ELSE "skipped",
                           !.html = IF Applies(r, hl.currentKey)
                                    THEN highlightCode(r.code, r.language)
                                    ELSE hl.html]
    /\ UNCHANGED notHighlight

\* the component unmounts: the cleanup of the last effect run
HlUnmounts ==
    /\ hl.mounted
    /\ hl' = [HlCleanup(hl) EXCEPT !.mounted = FALSE, !.gone = TRUE]
    /\ UNCHANGED notHighlight

\* ------------------------------------------------------------------------
\* Space service: createSpace and deleteSpace over the folders on disk.  A
\* path is the sequence of the pieces of its text, cut so that one path's
\* text starts with another's exactly when its pieces do.
\* ------------------------------------------------------------------------

\* getSpacesDir(): the directory of the default spaces, ~/.halo/spaces
SpacesDir == <<"~/.halo", "/", "spaces">>

\* getTempSpacePath()
TempSpacePath == <<"~/.halo", "/", "temp">>

\* join(getSpacesDir(), 'A'): where createSpace puts a space named A
DefaultSpacePath == SpacesDir \o <<"/", "A">>

\* two folders a user may hand createSpace as customPath: a project folder,
\* and a folder next to the spaces directory, ~/.halo/spaces-archive/proj
ProjectPath == <<"/work", "/", "proj">>

ArchivePath == <<"~/.halo", "/", "spaces", "-archive", "/", "proj">>

CustomPaths == {ProjectPath, ArchivePath}

SpacePaths == {DefaultSpacePath} \cup CustomPaths

FolderPaths == SpacePaths \cup {TempSpacePath}

\* String.prototype.startsWith
startsWith(text, prefix) ==
    Len(prefix) <= Len(text) /\ SubSeq(text, 1, Len(prefix)) = prefix

\* the folder at path lies in the directory dir
IsInside(path, dir) == startsWith(path, dir \o <<"/">>)

\* a folder: whether it exists, whether it holds .halo with its meta.json,
\* whether it holds files of the user
Folder(exists, halo, files) == [exists |-> exists, halo |-> halo, files |-> files]

NoFolder == Folder(FALSE, FALSE, FALSE)

\* the id in the meta.json of the space at a path
SpaceIdAt(path) ==
    CASE path = DefaultSpacePath -> "id-default"
      [] path = ProjectPath -> "id-project"
      [] path = ArchivePath -> "id-archive"
      [] OTHER -> "none"

SpaceIds == {"halo-temp", "id-unknown"} \cup {SpaceIdAt(path) : path \in SpacePaths}

NoDelete == [spaceId |-> "none", found |-> FALSE, path |-> <<>>, returned |-> FALSE]

NoSpaces ==
    [folders |-> [path \in FolderPaths |-> NoFolder], customPaths |-> {},
     op |-> "none", last |-> NoDelete]

\* listSpaces(): the folders of the spaces directory and the indexed custom
\* paths that hold a meta.json
listSpaces(s) ==
    {path \in SpacePaths :
        /\ IsInside(path, SpacesDir) \/ path \in s.customPaths
        /\ s.folders[path].exists
        /\ s.folders[path].halo}

\* the non-temp space getSpace(spaceId) finds, if any
FoundSpaces(s, spaceId) == {path \in listSpaces(s) : SpaceIdAt(path) = spaceId}

\* !spacePath.startsWith(spacesDir)
IsCustomPath(spacePath) == ~startsWith(spacePath, SpacesDir)

\* deleteSpace(spaceId); rmFails tells that rmSync throws
DeleteSpace(s, spaceId, rmFails) ==
    IF spaceId = "halo-temp" \/ FoundSpaces(s, spaceId) = {}
    THEN [s EXCEPT !.op = "deleteSpace",
                   !.last = [spaceId |-> spaceId, found |-> FALSE, path |-> <<>>,
                             returned |-> FALSE]]
    ELSE LET spacePath == CHOOSE path \in FoundSpaces(s, spaceId) : TRUE
             called == [s EXCEPT !.op = "deleteSpace",
                                 !.last = [spaceId |-> spaceId, found |-> TRUE,
                                           path |-> spacePath, returned |-> ~rmFails]]
         IN  IF rmFails THEN called
             ELSE IF IsCustomPath(spacePath)
             THEN [called EXCEPT !.folders[spacePath].halo = FALSE,
                                 !.customPaths = s.customPaths \ {spacePath}]
             ELSE [called EXCEPT !.folders[spacePath] = NoFolder]

\* createSpace({ name: 'A', icon }) or createSpace({ name, icon, customPath })
CreateSpace ==
    /\ \E path \in SpacePaths :
          spc' = [spc EXCEPT
                     !.folders[path] = Folder(TRUE, TRUE, spc.folders[path].files),
                     !.customPaths = IF path \in CustomPaths
                                     THEN spc.customPaths \cup {path}
                                     ELSE spc.customPaths,
                     !.op = "createSpace"]
    /\ UNCHANGED notSpaces

\* the user, or an agent working in the space, writes files into a folder
UserWrites ==
    /\ \E path \in FolderPaths :
          spc' = [spc EXCEPT
                     !.folders[path] = Folder(TRUE, spc.folders[path].halo, TRUE),
                     !.op = "userWrites"]
    /\ UNCHANGED notSpaces

\* deleteSpace(spaceId) returns
DeleteSpaceCalled ==
    /\ \E spaceId \in SpaceIds : \E rmFails \in BOOLEAN :
          spc' = DeleteSpace(spc, spaceId, rmFails)
    /\ UNCHANGED notSpaces

\* ------------------------------------------------------------------------
\* Express router: POST /v1/messages.  req.headers maps the lower-case
\* header names to a string, or to an array of strings for a repeated header.
\* ------------------------------------------------------------------------

AbsentHeader == [kind |-> "absent", items |-> <<>>]

StringHeader(text) == [kind |-> "string", items |-> <<text>>]

ArrayHeader(items) == [kind |-> "array", items |-> items]

\* Array.isArray(value) ? value[0] : value ; undefined is kept as absent
FirstOf(value) ==
    IF value.kind = "array"
    THEN IF value.items = <<>> THEN AbsentHeader ELSE StringHeader(value.items[1])
    ELSE value

\* JavaScript truthiness of a header value: every array is truthy, a string
\* unless it is empty, undefined never
Truthy(value) ==
    \/ value.kind = "array"
    \/ value.kind = "string" /\ value.items[1] # ""

HeaderNames ==
    {"x-api-key", "host", "connection", "content-length", "transfer-encoding",
     "anthropic-version", "anthropic-beta"}

ApiKeys == {"", "not-base64", "encoded-config"}

\* decodeBackendConfig(key) gives null for a key that does not decode
Decodes(key) == key = "encoded-config"

HeaderValues(name) ==
    CASE name = "x-api-key" ->
            {AbsentHeader, ArrayHeader(<<>>), ArrayHeader(<<"not-base64", "encoded-config">>),
             ArrayHeader(<<"encoded-config", "not-base64">>)}
            \cup {StringHeader(key) : key \in ApiKeys}
      [] name = "anthropic-version" -> {AbsentHeader, StringHeader(""), StringHeader("v")}
      [] name = "anthropic-beta" -> {AbsentHeader, ArrayHeader(<<"a", "b">>)}
      [] OTHER -> {AbsentHeader, StringHeader("v")}

Requests == {req \in [HeaderNames -> UNION {HeaderValues(name) : name \in HeaderNames}] :
                \A name \in HeaderNames : req[name] \in HeaderValues(name)}

HOP_BY_HOP_NoKey == {"host", "connection", "content-length", "transfer-encoding"}

HOP_BY_HOP == {"host", "connection", "content-length", "transfer-encoding", "x-api-key"}

\* the sdkHeaders object: the names it holds and the text under each
sdkHeaders(req) ==
    [name \in {n \in HeaderNames :
                  req[n].kind # "absent" /\ n \notin HOP_BY_HOP /\ Truthy(req[n])}
        |-> FirstOf(req[name])]

NoHandlerCall ==
    [called |-> FALSE, config |-> "none", sdkHeaders |-> [name \in {} |-> AbsentHeader]]

Response(status, type, handler) == [status |-> status, type |-> type, handler |-> handler]

\* the handler of app.post('/v1/messages')
PostMessages(req) ==
    LET rawKeyStr == FirstOf(req["x-api-key"])
    IN  IF ~Truthy(rawKeyStr)
        THEN Response(401, "authentication_error", NoHandlerCall)
        ELSE IF ~Decodes(rawKeyStr.items[1])
        THEN Response(400, "invalid_request_error", NoHandlerCall)
        ELSE Response(0, "handled",
                      [called |-> TRUE, config |-> rawKeyStr.items[1],
                       sdkHeaders |-> sdkHeaders(req)])

NoPost ==
    [req |-> [name \in HeaderNames |-> AbsentHeader], answered |-> FALSE, res |-> Response(0, "none", NoHandlerCall)]

\* a request arrives and the route answers it
PostArrives ==
    /\ ~post.answered
    /\ post' = [post EXCEPT !.answered = TRUE, !.res = PostMessages(post.req)]
    /\ UNCHANGED notRouter

\* ------------------------------------------------------------------------
\* A navigation in flight: the steps of browser_navigate and browser_new_page
\* interleaved with the load-completion event of the view.  waitForNavigation
\* is a one-shot subscription to that event raced against a timer.
\* ------------------------------------------------------------------------

FlightTools == {"browser_navigate", "browser_new_page"}

\* the commands that are awaited before waitForNavigation is called; goBack,
\* goForward and reload are called and followed by waitForNavigation in one
\* synchronous run of the handler
AwaitsCommand(tool, type) == tool = "browser_new_page" \/ type = "url"

MaxFlights == 2

\* calls counts the calls made, earlier the results of the calls before the
\* current one
IdleNavigation ==
    [pc |-> "idle", tool |-> "none", type |-> "none", timeout |-> 0,
     load |-> "none", subscribed |-> FALSE, missed |-> FALSE, result |-> "none",
     calls |-> 0, earlier |-> <<>>]

\* the handler runs up to its first await: it issues the navigation command
FlightCalled ==
    /\ nv.pc \in {"idle", "done"}
    /\ nv.calls < MaxFlights
    /\ \E tool \in FlightTools : \E type \in NavTypes : \E timeout \in NavTimeouts :
          /\ tool = "browser_new_page" => type = "url"
          /\ nv' = [nv EXCEPT
                       !.tool = tool, !.type = type,
                       !.timeout = navTimeout([timeout |-> timeout]),
                       !.load = "loading", !.missed = FALSE, !.result = "none",
                       !.calls = nv.calls + 1,
                       !.earlier = IF nv.pc = "done" THEN Append(nv.earlier, nv.result)
                                   ELSE nv.earlier,
                       !.pc = IF AwaitsCommand(tool, type) THEN "command" ELSE "wait",
                       !.subscribed = ~AwaitsCommand(tool, type)]
    /\ UNCHANGED notNavigation

\* await browserViewManager.navigate(viewId, url), or create(viewId, url),
\* settles: the handler goes on to waitForNavigation(timeout), or, when the
\* command was rejected and nothing loads, to its catch
FlightCommandSettles ==
    /\ nv.pc = "command"
    /\ \E ok \in BOOLEAN :
          /\ ~ok => nv.load = "loading"
          /\ nv' = IF ok
                   THEN [nv EXCEPT !.pc = "wait", !.subscribed = TRUE]
                   ELSE [nv EXCEPT !.pc = "done", !.result = "error", !.load = "failed"]
    /\ UNCHANGED notNavigation

\* the view signals that the load is complete; a subscription made by now is
\* resolved and released, and the handler returns its success result
LoadCompletes ==
    /\ nv.load = "loading"
    /\ nv.pc \in {"command", "wait"}
    /\ nv' = IF nv.subscribed
             THEN [nv EXCEPT !.load = "complete", !.subscribed = FALSE,
                             !.pc = "done", !.result = "success"]
             ELSE [nv EXCEPT !.load = "complete", !.missed = TRUE]
    /\ UNCHANGED notNavigation

\* the timer of waitForNavigation fires first: the subscription is released
\* and the handler returns the error result of its catch
FlightTimerFires ==
    /\ nv.pc = "wait"
    /\ nv.subscribed
    /\ nv' = [nv EXCEPT !.subscribed = FALSE, !.pc = "done", !.result = "error"]
    /\ UNCHANGED notNavigation

\* ------------------------------------------------------------------------
\* Specifications
\* ------------------------------------------------------------------------

InitIdleTimeout ==
    /\ tcall = IdleCall
    /\ under = "none"
    /\ timer = NoTimer
    /\ orphans = 0
    /\ lateEffect = FALSE

\* no page is open when the server is created
InitIdlePages ==
    /\ views = <<>>
    /\ activeViewId = NoView
    /\ created = 0
    /\ pcall = IdlePage
    /\ lastCall = NoCall

InitIdleSnapshot ==
    /\ generation = 0
    /\ snapshot = NoSnapshot
    /\ issued = {}
    /\ stale = {}
    /\ uidCall = NoUidCall

\* a view before its first navigation
InitIdleTelemetry ==
    /\ navNo = 0
    /\ netBuf = <<Bucket(0)>>
    /\ conBuf = <<Bucket(0)>>
    /\ recorded = {}
    /\ listCall = NoList

\* no trace is recorded and no performance call is in flight
InitIdlePerf ==
    /\ tracing = FALSE
    /\ perf = [c \in PerfCallers |-> IdlePerf]

\* no dialog was opened and no browser_handle_dialog call was made
InitIdleDialog ==
    /\ dialog = NoDialog
    /\ dlog = [opens |-> 0, handled |-> 0]
    /\ dcall = IdleDialogCall

\* none of the handlers followed as functions has run
InitIdleCalls ==
    /\ form = NoForm
    /\ shot = NoShot
    /\ lbuf = NoListInput
    /\ lres = NoListResponse

InitIdleLookup == lookup = NoLookup

\* neither browser_navigate nor browser_emulate was called
InitIdleCommands ==
    /\ nav = NoNav
    /\ emu = NoEmu
    /\ ff = NoFillForm

InitIdleInterceptors == chain = IdleChain

InitIdleNative == nm = NoTree

InitIdleLazy == lazy = NoLazy

InitIdleHighlight == hl = NoHighlight

InitIdleSpaces == spc = NoSpaces

InitIdleRouter == post = NoPost

InitIdleNavigation == nv = IdleNavigation

Init ==
    /\ InitIdleTimeout
    /\ InitIdlePages
    /\ InitIdleSnapshot
    /\ InitIdleTelemetry
    /\ InitIdlePerf
    /\ InitIdleDialog
    /\ InitIdleCalls
    /\ InitIdleLookup
    /\ InitIdleCommands
    /\ InitIdleInterceptors
    /\ InitIdleNative
    /\ InitIdleLazy
    /\ InitIdleHighlight
    /\ InitIdleSpaces
    /\ InitIdleRouter
    /\ InitIdleNavigation

\* one page is open and active
InitOnePage ==
    /\ InitIdleTimeout
    /\ views = <<1>>
    /\ activeViewId = 1
    /\ created = 1
    /\ pcall = IdlePage
    /\ lastCall = NoCall
    /\ InitIdleSnapshot
    /\ InitIdleTelemetry
    /\ InitIdlePerf
    /\ InitIdleDialog
    /\ InitIdleCalls
    /\ InitIdleLookup
    /\ InitIdleCommands
    /\ InitIdleInterceptors
    /\ InitIdleNative
    /\ InitIdleLazy
    /\ InitIdleHighlight
    /\ InitIdleSpaces
    /\ InitIdleRouter
    /\ InitIdleNavigation

\* no page or one page is open
InitCalls ==
    /\ InitIdleTimeout
    /\ \/ InitIdlePages
       \/ /\ views = <<1>>
          /\ activeViewId = 1
          /\ created = 1
          /\ pcall = IdlePage
          /\ lastCall = NoCall
    /\ InitIdleSnapshot
    /\ InitIdleTelemetry
    /\ InitIdlePerf
    /\ InitIdleDialog
    /\ InitIdleCalls
    /\ InitIdleLookup
    /\ InitIdleCommands
    /\ InitIdleInterceptors
    /\ InitIdleNative
    /\ InitIdleLazy
    /\ InitIdleHighlight
    /\ InitIdleSpaces
    /\ InitIdleRouter
    /\ InitIdleNavigation

\* one page is open, and the context holds some list of records for one of
\* the list tools
InitLists ==
    /\ InitIdleTimeout
    /\ views = <<1>>
    /\ activeViewId = 1
    /\ created = 1
    /\ pcall = IdlePage
    /\ lastCall = NoCall
    /\ InitIdleSnapshot
    /\ InitIdleTelemetry
    /\ InitIdlePerf
    /\ InitIdleDialog
    /\ form = NoForm
    /\ shot = NoShot
    /\ \E tool \in ListTools : \E records \in ListsOf(tool) :
          lbuf = [tool |-> tool, records |-> records]
    /\ lres = NoListResponse
    /\ InitIdleLookup
    /\ InitIdleCommands
    /\ InitIdleInterceptors
    /\ InitIdleNative
    /\ InitIdleLazy
    /\ InitIdleHighlight
    /\ InitIdleSpaces
    /\ InitIdleRouter
    /\ InitIdleNavigation

NextTimeout ==
    \/ Invoke
    \/ OpResolves
    \/ OpRejects
    \/ TimerFires
    \/ OrphanResolves
    \/ OrphanRejects
    \/ Tick

SpecTimeout == Init /\ [][NextTimeout]_vars

\* setTimeout callbacks run once they are due, and the clock does not stop
FairSpecTimeout ==
    Init /\ [][NextTimeout]_vars /\ WF_vars(Tick) /\ WF_vars(TimerFires)

NextPages ==
    \/ browser_list_pages
    \/ browser_select_page
    \/ browser_close_page
    \/ NewPageStart
    \/ NewPageCreated
    \/ NewPageWaited

SpecPages == Init /\ [][NextPages]_vars

NextSnapshot ==
    \/ browser_snapshot
    \/ PageNavigated
    \/ browser_upload_file
    \/ browser_evaluate
    \/ browser_click
    \/ browser_fill

SpecSnapshot == InitOnePage /\ [][NextSnapshot]_vars

NextTelemetry ==
    \/ RequestEvent
    \/ ConsoleEvent
    \/ Navigated
    \/ browser_network_requests
    \/ browser_console

SpecTelemetry == InitOnePage /\ [][NextTelemetry]_vars

NextLookup ==
    \/ RequestEvent
    \/ ConsoleEvent
    \/ Navigated
    \/ browser_network_request
    \/ browser_console_message

SpecLookup == InitOnePage /\ [][NextLookup]_vars

NextDialog ==
    \/ DialogOpened
    \/ browser_handle_dialog
    \/ HandleDialogSettles

SpecDialog == InitOnePage /\ [][NextDialog]_vars

NextCalls ==
    \/ FillFormElementRuns
    \/ browser_screenshot

SpecCalls == InitCalls /\ [][NextCalls]_vars

NextLists ==
    \/ NetworkRequestsListed
    \/ ConsoleListed

SpecLists == InitLists /\ [][NextLists]_vars

\* a page is opened with browser_new_page before a trace can be started
NextPerf ==
    \/ NewPageStart
    \/ NewPageCreated
    \/ NewPageWaited
    \/ PerfStartIssued
    \/ PerfBlankSettles
    \/ PerfPauseOver
    \/ PerfStartSettles
    \/ PerfBackSettles
    \/ PerfWaitSettles
    \/ PerfAutoPauseOver
    \/ PerfStopSettles
    \/ browser_perf_stop

SpecPerf == Init /\ [][NextPerf]_vars

\* no page or one page is open
InitCommands ==
    /\ InitIdleTimeout
    /\ \/ InitIdlePages
       \/ /\ views = <<1>>
          /\ activeViewId = 1
          /\ created = 1
          /\ pcall = IdlePage
          /\ lastCall = NoCall
    /\ InitIdleSnapshot
    /\ InitIdleTelemetry
    /\ InitIdlePerf
    /\ InitIdleDialog
    /\ InitIdleCalls
    /\ InitIdleLookup
    /\ InitIdleCommands
    /\ InitIdleInterceptors
    /\ InitIdleNative
    /\ InitIdleLazy
    /\ InitIdleHighlight
    /\ InitIdleSpaces
    /\ InitIdleRouter
    /\ InitIdleNavigation

NextCommands ==
    \/ browser_navigate
    \/ browser_emulate
    \/ browser_fill_form

SpecCommands == InitCommands /\ [][NextCommands]_vars

NextInterceptors ==
    \/ RunInterceptors
    \/ ShouldInterceptReturns
    \/ InterceptReturns
    \/ InterceptorThrows

SpecInterceptors == Init /\ [][NextInterceptors]_vars

\* a project after install: the scope directory is missing, or it holds some
\* of the packages in full; there is no backup and no script runs
InitNative ==
    /\ InitIdleTimeout
    /\ InitIdlePages
    /\ InitIdleSnapshot
    /\ InitIdleTelemetry
    /\ InitIdlePerf
    /\ InitIdleDialog
    /\ InitIdleCalls
    /\ InitIdleLookup
    /\ InitIdleCommands
    /\ InitIdleInterceptors
    /\ \/ nm = NoTree
       \/ \E installed \in Installs :
             nm = [NoTree EXCEPT !.scope = TRUE, !.pkgs = installed]
    /\ InitIdleLazy
    /\ InitIdleHighlight
    /\ InitIdleSpaces
    /\ InitIdleRouter
    /\ InitIdleNavigation

NextNative ==
    \/ PrepareCalled
    \/ RestoreCalled
    \/ RestoreScans
    \/ RestoreRemovesDest
    \/ RestoreRenames
    \/ RestoreCleansUp
    \/ PrepareScans
    \/ PrepareMakesBackupDir
    \/ PrepareRenames
    \/ PrepareLeavesEmptyDir
    \/ Interrupted

SpecNative == InitNative /\ [][NextNative]_vars

NextLazy ==
    \/ LazyMounts
    \/ LazyRenders
    \/ LazyIntersection
    \/ LazyUnmounts

SpecLazy == Init /\ [][NextLazy]_vars

NextHighlight ==
    \/ HlMounts
    \/ HlInputsChange
    \/ HlEffectReplayed
    \/ HlFrameFires
    \/ HlResolves
    \/ HlUnmounts

SpecHighlight == Init /\ [][NextHighlight]_vars

NextSpaces ==
    \/ CreateSpace
    \/ UserWrites
    \/ DeleteSpaceCalled

SpecSpaces == Init /\ [][NextSpaces]_vars

\* a request with any of the header sets is about to arrive
InitRouter ==
    /\ InitIdleTimeout
    /\ InitIdlePages
    /\ InitIdleSnapshot
    /\ InitIdleTelemetry
    /\ InitIdlePerf
    /\ InitIdleDialog
    /\ InitIdleCalls
    /\ InitIdleLookup
    /\ InitIdleCommands
    /\ InitIdleInterceptors
    /\ InitIdleNative
    /\ InitIdleLazy
    /\ InitIdleHighlight
    /\ InitIdleSpaces
    /\ \E req \in Requests : post = [NoPost EXCEPT !.req = req]
    /\ InitIdleNavigation

NextRouter == PostArrives

SpecRouter == InitRouter /\ [][NextRouter]_vars

NextNavigation ==
    \/ FlightCalled
    \/ FlightCommandSettles
    \/ LoadCompletes
    \/ FlightTimerFires

SpecNavigation == Init /\ [][NextNavigation]_vars

\* ------------------------------------------------------------------------
\* Claims
\* ------------------------------------------------------------------------

ClickHoverFill == {"browser_click", "browser_hover", "browser_fill"}

\* C1: a browser_click / browser_hover / browser_fill call whose underlying
\* operation never completes returns all the same: a call that waits is
\* always followed by its return, and a call that gave up on its operation
\* returned after exactly TOOL_TIMEOUT ms an error that says it timed out
\* after TOOL_TIMEOUT ms.
C1_ClickHoverFillTimeOut ==
    /\ [](tcall.pc = "returned" /\ tcall.tool \in ClickHoverFill /\ tcall.abandoned > 0
            => /\ tcall.result.isError
               /\ tcall.result.why = "timed out"
               /\ tcall.result.ms = TOOL_TIMEOUT
               /\ tcall.elapsed = TOOL_TIMEOUT)
    /\ ((tcall.pc = "awaiting" /\ tcall.tool \in ClickHoverFill)
            ~> (tcall.pc = "returned"))

C1_Witness ==
    /\ tcall.pc = "returned"
    /\ tcall.tool = "browser_fill"
    /\ tcall.abandoned = 1
    /\ orphans > 0
    /\ tcall.result.why = "timed out"

\* C2: every await of every handler is raced against a timer, so that no
\* tool call can wait without a deadline.
C2_EveryAwaitGuarded == tcall.pc = "awaiting" => timer.armed

\* C3: once a tool call has returned its timeout error, the operation it
\* raced is no longer outstanding and has no effect after the return.
C3_TimeoutCancelsOperation ==
    (tcall.pc = "returned" /\ tcall.abandoned > 0) => (orphans = 0 /\ ~lateEffect)

\* C4: no handler throws or rejects to its caller: whatever fails, the call
\* ends in a normalized result.
C4_NoHandlerThrows == lastCall.outcome # "threw"

\* C5: browser_close_page on the only view answers with an error result and
\* destroys nothing, so once a view exists the list never becomes empty and
\* browser_list_pages reports at least one view.
C5_LastPageStays ==
    [][/\ (lastCall'.tool = "browser_close_page" /\ lastCall'.before = 1)
            => (lastCall'.outcome = "error" /\ views' = views)
       /\ Len(views) >= 1 => Len(views') >= 1
       /\ (Len(views) >= 1 /\ lastCall'.tool = "browser_list_pages")
            => lastCall'.listed >= 1]_vars

C5_Witness ==
    /\ lastCall.tool = "browser_close_page"
    /\ lastCall.before = 1
    /\ lastCall.outcome = "error"
    /\ Len(views) = 1
    /\ created = MaxCreated

\* C6: the active view id of the context, when set, is the id of a view in
\* the list of the view manager.
C6_ActiveViewIsLive == activeViewId # NoView => activeViewId \in Range(views)

UidTools == {"browser_upload_file", "browser_evaluate", "browser_click", "browser_fill"}

\* C7: a uid resolves from its snapshot up to the next capture or navigation
\* and never after it, and a uid tool given a uid that no longer resolves
\* answers with an error.
C7_UidLifetime ==
    /\ \A u \in issued : (u \in stale) <=> (getElementByUid(u) = NoElement)
    /\ (uidCall.tool \in UidTools /\ uidCall.wasStale) => uidCall.outcome = "error"

C7_Witness ==
    /\ uidCall.tool = "browser_upload_file"
    /\ uidCall.wasStale
    /\ uidCall.outcome = "error"
    /\ generation >= 2
    /\ \E u \in issued : u \notin stale

InWindow(buf, kind) ==
    /\ Len(buf) <= RETENTION + 1
    /\ buf[Len(buf)].nav = navNo
    /\ \A i \in DOMAIN buf :
          /\ buf[i].nav = navNo - (Len(buf) - i)
          /\ \A j \in DOMAIN buf[i].recs : buf[i].recs[j].nav = buf[i].nav
    /\ \A r \in recorded :
          r.kind = kind =>
            ((r.nav >= navNo - RETENTION) <=> (r \in Range(Flatten(buf))))

\* C8: the network and the console buffer hold the records of the current
\* navigation and of the RETENTION navigations before it, and of no other:
\* a navigation beyond the window evicts the oldest navigation as a whole.
C8_RetentionWindow == InWindow(netBuf, "net") /\ InWindow(conBuf, "con")

C8_Witness ==
    /\ navNo = RETENTION + 2
    /\ \E r \in recorded : r.kind = "net" /\ r.nav = 0
    /\ \E r \in recorded : r.kind = "net" /\ r.nav = 2
    /\ Len(Flatten(netBuf)) = 1

PreservedList ==
    listCall.tool = "browser_network_requests" /\ listCall.preserved

C10_SecondStartRefused ==
    \A c \in PerfCallers :
        (perf[c].tool = "browser_perf_start" /\ perf[c].wasTracing)
            => /\ perf[c].pc = "idle"
               /\ perf[c].result.isError
               /\ perf[c].result.why = "already running"
               /\ perf[c].called = {}
               /\ perf[c].result.tracingAfter

C10_Witness ==
    /\ perf["a"].tool = "browser_perf_start"
    /\ perf["a"].pc = "idle"
    /\ perf["a"].result.why = "recording"
    /\ perf["b"].tool = "browser_perf_start"
    /\ perf["b"].wasTracing
    /\ perf["b"].result.why = "already running"
    /\ tracing

\* C11: no startPerformanceTrace of a browser_perf_start call is outstanding
\* while the session is Recording: of two calls that overlap, the second is
\* refused before it gets there.
C11_OverlappingStartRefused ==
    \A c \in PerfCallers : perf[c].pc = "starting" => ~tracing

\* C12 as stated: browser_perf_stop called while no trace is Recording
\* returns a result that is no error, has not called stopPerformanceTrace
\* and leaves the session Idle.
C12_StopWhileIdleBenign ==
    \A c \in PerfCallers :
        (perf[c].tool = "browser_perf_stop" /\ perf[c].pc = "idle" /\ ~perf[c].wasTracing)
            => /\ ~perf[c].result.isError
               /\ perf[c].called = {}
               /\ ~perf[c].result.tracingAfter

\* C12 as amended: browser_perf_stop called while no trace is Recording
\* returns at once without calling stopPerformanceTrace and leaves the
\* session Idle; its result is no error when a page is active, and the
\* 'No active browser page.' error when none is.
C12_StopWhileIdle ==
    [][\A c \in PerfCallers :
          (perf[c].pc = "idle" /\ perf'[c] # perf[c]
             /\ perf'[c].tool = "browser_perf_stop" /\ ~tracing)
            => /\ perf'[c].pc = "idle"
               /\ perf'[c].called = {}
               /\ ~tracing'
               /\ ~perf'[c].result.tracingAfter
               /\ perf'[c].result.isError <=> (activeViewId = NoView)
               /\ perf'[c].result.why =
                     (IF activeViewId = NoView THEN "no active page" ELSE "not running")]_vars

C12_Witness ==
    /\ activeViewId # NoView
    /\ perf["a"].tool = "browser_perf_stop"
    /\ perf["a"].pc = "idle"
    /\ ~perf["a"].wasTracing
    /\ perf["a"].result.why = "not running"
    /\ ~perf["a"].result.isError
    /\ perf["b"].tool = "browser_perf_stop"
    /\ perf["b"].result.why = "stopped"

HandleDialogReturned == dcall.tool = "browser_handle_dialog" /\ dcall.pc = "idle"

\* C13: a dialog is pending exactly from a dialog-open event to the next
\* successful accept / dismiss; browser_handle_dialog called with no dialog
\* pending returns the no-dialog error without calling handleDialog, and so
\* does a call that follows a successful one with no dialog opened in between.
C13_DialogLifetime ==
    /\ dlog.handled <= dlog.opens
    /\ (dialog # NoDialog) <=> (dlog.opens > dlog.handled)
    /\ (dcall.tool = "browser_handle_dialog" /\ ~dcall.wasPending)
          => /\ dcall.pc = "idle"
             /\ dcall.result.isError
             /\ dcall.result.why = "no dialog"
             /\ ~dcall.called
    /\ (dcall.tool = "browser_handle_dialog" /\ dcall.afterSuccess)
          => /\ dcall.pc = "idle"
             /\ dcall.result.isError
             /\ dcall.result.why = "no dialog"
             /\ ~dcall.called

C13_Witness ==
    /\ HandleDialogReturned
    /\ dcall.afterSuccess
    /\ dcall.result.why = "no dialog"
    /\ dlog.opens = 1
    /\ dlog.handled = 1

IsCombobox(e) == e.found /\ e.role = "combobox"

HasOptionChild(e) ==
    e.children # NoChildren /\ \E i \in DOMAIN e.children : e.children[i] = "option"

FormRan == form.run.outcome # "none"

\* C14: fillFormElement on a combobox calls selectOption once and
\* fillElement never when there are option children and selectOption
\* succeeds, fillElement once and selectOption never when there are no
\* option children, and fillElement once after the one failed selectOption
\* when no option matches.
C14_ComboboxFill ==
    (FormRan /\ IsCombobox(form.element)) =>
        /\ (HasOptionChild(form.element) /\ form.select.ok)
              => form.run.calls = <<"selectOption">>
        /\ ~HasOptionChild(form.element)
              => form.run.calls = <<"fillElement">>
        /\ (HasOptionChild(form.element) /\ ~form.select.ok /\ form.select.cause = "noMatch")
              => form.run.calls = <<"selectOption", "fillElement">>

C14_Witness ==
    /\ FormRan
    /\ IsCombobox(form.element)
    /\ form.element.children = <<"generic", "option">>
    /\ form.select.cause = "noMatch"
    /\ form.run.calls = <<"selectOption", "fillElement">>
    /\ form.run.outcome = "resolved"

\* C15: when selectOption fails for another reason than that no option
\* matches, fillFormElement fails with what selectOption threw and has not
\* called fillElement.
C15_OtherFailuresPropagate ==
    (FormRan /\ IsCombobox(form.element) /\ HasOptionChild(form.element)
       /\ ~form.select.ok /\ form.select.cause # "noMatch")
        => /\ form.run.calls = <<"selectOption">>
           /\ form.run.outcome = "rejected"
           /\ form.run.thrown = "selectOption"

C15_Witness ==
    /\ FormRan
    /\ IsCombobox(form.element)
    /\ HasOptionChild(form.element)
    /\ form.select.cause = "value"
    /\ form.select.mentionsOption
    /\ form.fillOk
    /\ form.run.outcome = "rejected"

ShotTaken == shot.result.why # "none"

ShotRefused == shot.result.isError /\ shot.result.calls = <<>>

Passes(r) ==
    \/ ~lres.filter.given
    \/ lres.filter.value = {}
    \/ IF lres.tool = "browser_network_requests"
       THEN \E t \in lres.filter.value : toLowerCase(t) = toLowerCase(r.type)
       ELSE r.type \in lres.filter.value

Matching == SelectSeq(lbuf.records, Passes)

Listed == lres.tool # "none"

PageNo == IF lres.pageIdx = Absent THEN 0 ELSE lres.pageIdx

\* the pages k, k+1, .. of the matching records for a page size, one after
\* the other
RECURSIVE PagesFrom(_, _)
PagesFrom(k, size) ==
    IF k * size >= Len(Matching) THEN <<>>
    ELSE ListResponse(lres.tool, lbuf.records, lres.filter, size, k).items
            \o PagesFrom(k + 1, size)

\* C17: the records of a page are the matching records at the places
\* k*s+1 .. min((k+1)*s, total), in the order of the buffer, and the pages
\* 0, 1, .. together are the matching records, each once.
C17_PageContents ==
    /\ (Listed /\ lres.pageSize # Absent) =>
          LET first == PageNo * lres.pageSize + 1
              last == Min((PageNo + 1) * lres.pageSize, Len(Matching))
          IN /\ Len(lres.response.items) = (IF last >= first THEN last - first + 1 ELSE 0)
             /\ \A i \in DOMAIN lres.response.items :
                    lres.response.items[i] = Matching[first + i - 1]
    /\ Listed => \A size \in 1..MaxPageSize : PagesFrom(0, size) = Matching

C17_Witness ==
    /\ Listed
    /\ lres.pageSize = 1
    /\ lres.pageIdx = 1
    /\ lres.filter.given
    /\ Len(lbuf.records) = 3
    /\ Len(Matching) = 2
    /\ lres.response.items = <<Matching[2]>>
    /\ Matching[2] = lbuf.records[3]

\* C18: a list holds the next-page line, naming page k+1, exactly when
\* pageSize was given and a matching record lies after the last record of
\* the page.
C18_NextPageHint ==
    Listed =>
        /\ (lres.response.hint # Absent)
              <=> /\ lres.pageSize # Absent
                  /\ lres.response.items # <<>>
                  /\ \E i \in DOMAIN Matching :
                        i > PageNo * lres.pageSize + Len(lres.response.items)
        /\ lres.response.hint # Absent => lres.response.hint = PageNo + 1

C18_Witness ==
    /\ Listed
    /\ lres.pageSize = 1
    /\ lres.pageIdx = 1
    /\ Len(Matching) = 3
    /\ lres.response.hint = 2

\* C19: a list made for a call with a pageSize states the range of the
\* records it returns and the number of matching records.
C19_RangeAndTotal ==
    (Listed /\ lres.pageSize # Absent) =>
        /\ lres.response.header.kind = "range"
        /\ lres.response.header.total = Len(Matching)
        /\ lres.response.header.from = PageNo * lres.pageSize + 1
        /\ lres.response.header.to = Min((PageNo + 1) * lres.pageSize, Len(Matching))

LookedUp == lookup.tool # "none"

\* C20: browser_network_request / browser_console_message asked for an id
\* that is not in the buffer, never recorded or evicted, return the
\* not-found error and no record; a record they return is the one asked for.
C20_LookupMiss ==
    LookedUp =>
        /\ ~lookup.inBuffer
              => /\ lookup.isError
                 /\ lookup.why = "not found"
                 /\ lookup.record = NotFound
        /\ ~lookup.isError
              => /\ lookup.inBuffer
                 /\ IdText(lookup.record) = String(lookup.asked)
                 /\ lookup.record.kind =
                       (IF lookup.tool = "browser_network_request" THEN "net" ELSE "con")

C20_Witness ==
    /\ lookup.tool = "browser_network_request"
    /\ lookup.asked = 2
    /\ lookup.everRecorded
    /\ ~lookup.inBuffer
    /\ lookup.isError
    /\ \E r \in recorded : r.kind = "net" /\ r.id = 2 /\ r \in Range(Flatten(netBuf))

\* the arguments C21 is about: neither type nor url, or type 'url' and no url
NavInvalid(args) ==
    /\ ~TruthyString(args.url)
    /\ ~args.type.given \/ args.type.value = "url"

\* C21: browser_navigate called with neither type nor url, or with type 'url'
\* and no url, returns an error result and sends no command: no navigate,
\* goBack, goForward or reload and no waitForNavigation; the view list and the
\* active view stay as they were.
C21_InvalidNavigateNoEffect ==
    [][(nav'.called /\ NavInvalid(nav'.args))
          => /\ nav'.result.isError
             /\ nav'.result.calls = <<>>
             /\ views' = views
             /\ activeViewId' = activeViewId]_vars

\* a page is active and the call names type 'url' without a url
C21_Witness ==
    /\ nav.called
    /\ nav.active # NoView
    /\ nav.args.type = Arg("url")
    /\ ~nav.args.url.given
    /\ nav.result.why = "urlRequired"

\* the commands of a method among those a call sent
Sent(calls, methods) == SelectSeq(calls, LAMBDA c : c.method \in methods)

NetworkMethods == {"Network.emulateNetworkConditions"}

CpuMethods == {"Emulation.setCPUThrottlingRate"}

GeolocationMethods ==
    {"Emulation.clearGeolocationOverride", "Emulation.setGeolocationOverride"}

\* the parameters C22 states for a networkConditions value
StatedNetworkParams(value) ==
    CASE value = "No emulation" -> NetworkParams(FALSE, 0, 0 - 10, 0 - 10)
      [] value = "Offline" -> NetworkParams(TRUE, 0, 0, 0)
      [] OTHER -> NetworkParams(FALSE, NETWORK_CONDITIONS[value].latency,
                                NETWORK_CONDITIONS[value].download,
                                NETWORK_CONDITIONS[value].upload)

OneNetworkCommand(e) ==
    /\ Len(Sent(e.result.calls, NetworkMethods)) = 1
    /\ Sent(e.result.calls, NetworkMethods)[1].params
          = StatedNetworkParams(e.args.networkConditions.value)

\* C22 as stated: for every networkConditions value browser_emulate sends
\* exactly one Network.emulateNetworkConditions command, with the
\* parameters of that value.
C22_OneNetworkCommand ==
    (emu.called /\ emu.args.networkConditions.given) => OneNetworkCommand(emu)

\* C22 as amended: while a page is active, for every networkConditions value
\* browser_emulate sends exactly one Network.emulateNetworkConditions
\* command, with the parameters of that value; with no active page it sends
\* no command and returns an error.
C22_OneNetworkCommandOnActivePage ==
    (emu.called /\ emu.args.networkConditions.given)
        => IF emu.active # NoView
           THEN OneNetworkCommand(emu)
           ELSE emu.result.isError /\ emu.result.calls = <<>>

\* a preset was sent to an active page
C22_Witness ==
    /\ emu.called
    /\ emu.active # NoView
    /\ emu.args.networkConditions = Arg("Fast 3G")
    /\ Len(Sent(emu.result.calls, NetworkMethods)) = 1
    /\ ~emu.result.isError

\* C23: browser_emulate sends no network command when networkConditions is
\* omitted, no CPU-throttling command when cpuThrottlingRate is omitted and
\* no geolocation command when geolocation is omitted; a geolocation command
\* clears the override for null and sets it for an object; a call that omits
\* all three sends no command at all.
C23_OmittedUnchanged ==
    emu.called =>
        /\ ~emu.args.networkConditions.given
              => Sent(emu.result.calls, NetworkMethods) = <<>>
        /\ ~emu.args.cpuThrottlingRate.given
              => Sent(emu.result.calls, CpuMethods) = <<>>
        /\ ~emu.args.geolocation.given
              => Sent(emu.result.calls, GeolocationMethods) = <<>>
        /\ \A k \in 1 .. Len(emu.result.calls) :
              emu.result.calls[k].method \in GeolocationMethods
                 => (emu.result.calls[k].method = "Emulation.clearGeolocationOverride"
                        <=> emu.args.geolocation.isNull)
        /\ emu.args = NoEmuArgs => emu.result.calls = <<>>

\* a call on an active page that omits all three settings
C23_Witness ==
    /\ emu.called
    /\ emu.active # NoView
    /\ emu.args = NoEmuArgs
    /\ emu.result.why = "unchanged"

\* C24: browser_navigate with type 'reload' on an active page reloads the
\* view with the caller's ignoreCache flag: ignoring the cache for true,
\* normally for false or when the flag is left out.
C24_ReloadPassesIgnoreCache ==
    (nav.called /\ nav.active # NoView /\ nav.args.type = Arg("reload"))
        => /\ Len(nav.result.calls) >= 1
           /\ nav.result.calls[1].op = "reload"
           /\ TruthyBoolean(nav.result.calls[1].ignoreCache)
                 = TruthyBoolean(nav.args.ignoreCache)

\* the intercept calls of a run that returned a result
Intercepts(log) == {k \in 1 .. Len(log) : log[k].fn = "intercept" /\ ~log[k].threw}

\* C25: runInterceptors consults the interceptors in list order, each at
\* most once; intercept is called only on the interceptor whose
\* shouldIntercept has just returned true; and after an intercept call has
\* returned a modified request or responded, no method of any interceptor
\* is called.
C25_FirstHandlerWins ==
    LET log == chain.log
    IN  /\ \A k \in 1 .. Len(log) :
              log[k].fn = "intercept"
                 => /\ k > 1
                    /\ log[k - 1].fn = "shouldIntercept"
                    /\ log[k - 1].idx = log[k].idx
                    /\ log[k - 1].should
                    /\ ~log[k - 1].threw
        /\ \A j, k \in 1 .. Len(log) :
              (j < k /\ log[k].fn = "shouldIntercept") => log[j].idx < log[k].idx
        /\ \A k \in 1 .. Len(log) : log[k].idx \in 1 .. chain.n
        /\ \A k \in Intercepts(log) :
              (log[k].result.handled
                 /\ (log[k].result.responded \/ log[k].result.modified # NoRequest))
                 => k = Len(log)

\* the second of three interceptors handed back a modified request, after
\* the first had declined
C25_Witness ==
    /\ chain.pc = "done"
    /\ chain.n = 3
    /\ Len(chain.log) = 3
    /\ chain.log[1].fn = "shouldIntercept" /\ ~chain.log[1].should
    /\ chain.log[3].fn = "intercept" /\ chain.log[3].idx = 2
    /\ chain.log[3].result.modified = ModifiedRequest
    /\ chain.result.intercepted
    /\ chain.result.request = ModifiedRequest

\* C26: runInterceptors returns { intercepted: false } exactly when no
\* intercept call returned handled: true, be it with a modified request,
\* with responded or with neither; and a result with intercepted: false
\* carries the request of the caller.
C26_InterceptedIffHandled ==
    chain.result.kind = "returned"
        => /\ chain.result.intercepted
                 <=> (\E k \in Intercepts(chain.log) : chain.log[k].result.handled)
           /\ ~chain.result.intercepted => chain.result.request = chain.request

\* the packages with the registry prefix
Prefixed == {name \in Packages : HasPrefix(name)}

\* C27: from a tree without a backup, prepare followed by restore leaves the
\* scope directory with exactly the package directories and contents it had
\* before prepare, and leaves no backup directory.
C27_PrepareRestoreRoundTrip ==
    (nm.round.state = "restored" /\ nm.round.clean)
        => /\ nm.pkgs = nm.round.before
           /\ ~nm.backupRoot
           /\ ~nm.backupScope
           /\ nm.backup = NoneInstalled

\* prepare for win32-x64 moved two packages away and restore brought them back
C27_Witness ==
    /\ nm.round.state = "restored"
    /\ nm.round.clean
    /\ nm.round.target = "watcher-win32-x64"
    /\ nm.interrupts = 0
    /\ \A name \in Packages : nm.pkgs[name] = name

\* C28: after a successful prepare the target package holds its content and
\* every other package with the registry prefix that is installed is an
\* empty directory whose content is in the backup; the package without the
\* prefix is where it was.  This holds also when prepare started with the
\* backup an interrupted prepare or restore left behind.
C28_OnlyTargetKeepsContent ==
    (nm.round.state = "prepared" /\ nm.scope)
        => /\ nm.pkgs[nm.round.target] = nm.round.target
           /\ nm.backup[nm.round.target] = "absent"
           /\ \A name \in Prefixed \ {nm.round.target} :
                 \/ nm.pkgs[name] = "absent" /\ nm.backup[name] = "absent"
                 \/ nm.pkgs[name] = "empty" /\ nm.backup[name] = name
           /\ nm.pkgs["watcher"] \in {"absent", "watcher"}
           /\ nm.backup["watcher"] = "absent"

\* a prepare was killed, and the next prepare, for another platform,
\* succeeded and moved the earlier target away
C28_Witness ==
    /\ nm.round.state = "prepared"
    /\ nm.interrupts = 1
    /\ ~nm.round.clean
    /\ nm.round.target = "watcher-linux-x64-glibc"
    /\ nm.pkgs["watcher-win32-x64"] = "empty"
    /\ nm.backup["watcher-win32-x64"] = "watcher-win32-x64"
    /\ nm.backup["watcher-darwin-arm64"] = "watcher-darwin-arm64"

HlQuiet == \A id \in 1 .. Len(hl.requests) : hl.requests[id].stage \in {"dropped", "done", "skipped"}

\* C30: once the inputs have stopped changing with a non-empty code and
\* every highlight the hook has scheduled is resolved or cancelled while the
\* component is mounted, the html it returns is highlightCode(code, language).
C30_EventuallyHighlighted ==
    (hl.mounted /\ hl.code # <<>> /\ HlQuiet)
        => hl.html = highlightCode(hl.code, hl.language)

\* C31: deleteSpace never deletes the user's files of a space outside the
\* default spaces directory and never deletes the temp space: for such a
\* space it removes only .halo and the index entry; for the temp space or an
\* unknown id it returns false and changes nothing; only a space inside the
\* default spaces directory loses its whole folder.
C31_DeleteSpaceSparesUserFiles ==
    [][spc'.op = "deleteSpace" =>
          /\ spc'.last.spaceId \in {"halo-temp", "id-unknown"} =>
                /\ ~spc'.last.returned
                /\ spc'.folders = spc.folders
                /\ spc'.customPaths = spc.customPaths
          /\ spc'.folders[TempSpacePath] = spc.folders[TempSpacePath]
          /\ \A path \in SpacePaths :
                ~IsInside(path, SpacesDir) =>
                   /\ spc'.folders[path].exists = spc.folders[path].exists
                   /\ spc'.folders[path].files = spc.folders[path].files
          /\ \A path \in SpacePaths :
                spc'.folders[path] # spc.folders[path] =>
                   /\ path = spc'.last.path
                   /\ spc'.last.returned]_vars

\* C32: POST /v1/messages calls handleMessagesRequest only for a request whose
\* x-api-key is present and decodes; without a key it answers 401
\* authentication_error, with a key that does not decode 400
\* invalid_request_error, both without calling the handler; and the headers it
\* forwards never hold x-api-key, host, connection, content-length or
\* transfer-encoding.
C32_HandlerOnlyWithDecodedKey ==
    post.answered =>
       LET given == post.req["x-api-key"]
           key == IF given.kind = "absent" \/ given.items = <<>> THEN ""
                  ELSE given.items[1]
           handler == post.res.handler
       IN  /\ handler.called <=> (key # "" /\ Decodes(key))
           /\ handler.called => handler.config = key
           /\ key = "" =>
                 post.res.status = 401 /\ post.res.type = "authentication_error"
           /\ (key # "" /\ ~Decodes(key)) =>
                 post.res.status = 400 /\ post.res.type = "invalid_request_error"
           /\ (DOMAIN handler.sdkHeaders)
                 \cap {"x-api-key", "host", "connection", "content-length",
                       "transfer-encoding"} = {}

\* a request that carries a key that decodes, all four connection headers and
\* a version header has reached the handler with the version header forwarded
C32_Witness ==
    /\ post.answered
    /\ post.res.handler.called
    /\ \A name \in {"host", "connection", "content-length", "transfer-encoding"} :
          post.req[name].kind # "absent"
    /\ "anthropic-version" \in DOMAIN post.res.handler.sdkHeaders

C34_LoadInTimeSucceeds ==
    (nv.pc = "done" /\ nv.load = "complete") => nv.result = "success"

\* C35: a browser_perf_start call that returns an error result leaves no
\* trace Recording: a trace the call has started is stopped again when a
\* later step of the call fails.  Stated for a call made while no trace was
\* Recording and while no other call is under way.
C35_ErrorLeavesNoTrace ==
    \A c \in PerfCallers :
        (/\ perf[c].tool = "browser_perf_start"
         /\ perf[c].pc = "idle"
         /\ perf[c].result.isError
         /\ ~perf[c].wasTracing
         /\ \A other \in PerfCallers \ {c} : perf[other] = IdlePerf)
            => ~perf[c].result.tracingAfter

\* the positions of the elements of a call that did not get filled
FailedAt(call) == {i \in 1 .. Len(call.elements) : call.outcomes[i] # "filled"}

\* the result of a call is the one stated for its elements and outcomes: every
\* element was tried in list order; plain success when none failed; otherwise
\* the uid of each failed element is listed, in order, and isError is set
\* exactly when every element failed
FormResultAsStated(call) ==
    /\ call.result.attempts = call.elements
    /\ FailedAt(call) = {} =>
          /\ call.result.why = "success"
          /\ ~call.result.isError
          /\ call.result.errors = <<>>
    /\ FailedAt(call) # {} =>
          /\ call.result.why = "partially"
          /\ Len(call.result.errors) = Cardinality(FailedAt(call))
          /\ \A k \in 1 .. Len(call.result.errors) :
                \E i \in FailedAt(call) :
                   /\ Cardinality({j \in FailedAt(call) : j <= i}) = k
                   /\ call.result.errors[k].uid = call.elements[i]
                   /\ call.result.errors[k].message = call.outcomes[i]
          /\ call.result.isError <=> (FailedAt(call) = 1 .. Len(call.elements))

\* C36 as stated: browser_fill_form tries every element in list order, also
\* after an earlier one failed or timed out, returns plain success when no
\* element failed, the empty list included, and otherwise a result that lists
\* each failed uid and whose isError is set exactly when every element failed.
C36_EveryElementAttempted == ff.called => FormResultAsStated(ff)

\* C36 as amended: the same while a page is active; with no active page the
\* tool tries no element and returns the error 'No active browser page.'.
C36_EveryElementAttemptedOnActivePage ==
    ff.called =>
       IF ff.active # NoView THEN FormResultAsStated(ff)
       ELSE /\ ff.result.attempts = <<>>
            /\ ff.result.isError
            /\ ff.result.why = "noActivePage"

\* the first of two elements timed out, the second was tried and filled, and
\* the result lists the first without being an error
C36_Witness ==
    /\ ff.called
    /\ ff.active # NoView
    /\ ff.outcomes = <<"timedOut", "filled">>
    /\ ff.result.attempts = ff.elements
    /\ Len(ff.result.errors) = 1
    /\ ~ff.result.isError

\* C37: when browser_new_page fails after the view was created, because the
\* wait timed out or was rejected, nothing is rolled back: the new view stays
\* in the list and stays the active one although the tool returns an error;
\* when create itself fails the active view is the one it was.
C37_NoRollback ==
    [][(/\ lastCall' # lastCall
        /\ lastCall'.tool = "browser_new_page"
        /\ lastCall'.outcome = "error") =>
          IF pcall.pc = "wait"
          THEN /\ views' = views
               /\ \E i \in 1 .. Len(views') : views'[i] = lastCall'.target
               /\ activeViewId' = lastCall'.target
          ELSE activeViewId' = activeViewId]_vars

\* a second page was opened, its wait failed, and it is listed and active
C37_Witness ==
    /\ pcall.pc = "idle"
    /\ lastCall.tool = "browser_new_page"
    /\ lastCall.outcome = "error"
    /\ Len(views) >= 2
    /\ views[Len(views)] = lastCall.target
    /\ activeViewId = lastCall.target

\* C38: emulateTool of tools/emulation.ts and browser_emulate are equivalent:
\* for the same arguments, active page and failing command they send the same
\* protocol commands with the same parameters in the same order, stopping at
\* the first failure, and return the same text and the same error flag.
C38_EmulateToolsAgree ==
    emu.called =>
       /\ emu.twin.calls = emu.result.calls
       /\ emu.twin.isError = emu.result.isError
       /\ emu.twin.content = emu.content

\* both handlers sent a preset, a throttling rate and a geolocation and the
\* protocol rejected the last of the three commands
C38_Witness ==
    /\ emu.called
    /\ emu.active # NoView
    /\ emu.args.networkConditions = Arg("Fast 3G")
    /\ Len(emu.twin.calls) = 3
    /\ emu.twin.isError
    /\ emu.twin.calls[3].method = "Emulation.setGeolocationOverride"
    /\ emu.twin.content = <<Line("Emulation failed", "Emulation.setGeolocationOverride", <<>>)>>

====
